---- MODULE Spec2Model ----
(***************************************************************************)
(* A model of rodbot's agent control loop (rodbot/agent/loop.py) and of    *)
(* its experience/memory store (rodbot/agent/memory.py).                   *)
(*                                                                         *)
(* The specifications share the module's variables:                        *)
(*   Spec            one turn of AgentLoop._run_agent_loop                 *)
(*   SpecProgress    AgentLoop._should_send_progress / _bus_progress       *)
(*   SpecStore       the MemoryStore experience operations                 *)
(*   SpecSearch      MemoryStore.search_experience                         *)
(*   SpecReuse       MemoryStore.record_reuse / deprecate_similar          *)
(*   SpecMerge       AgentLoop._merge_and_cleanup_experiences              *)
(*   SpecCleanup     MemoryStore.cleanup_stale                             *)
(*   SpecConsolidate the turns and their memory consolidation tasks        *)
(*   SpecWorkers     store operations of two worker threads, call by call  *)
(*   SpecAbandon     the same with the process shutting down               *)
(*   SpecFailure     the same with backend calls that raise                *)
(*   SpecRun         AgentLoop.run                                         *)
(*   SpecLegacyFair  cleanup_stale on rows without a timestamp             *)
(*   SpecConflict    the conflict marks of search_experience               *)
(*   SpecMemory      MemoryStore.search_memory                             *)
(*   SpecLongTerm    write_long_term / read_long_term                      *)
(*   SpecOracle      one turn with the utility oracle failing              *)
(*   SpecSummarize   AgentLoop._summarize_experience and later searches    *)
(*   SpecForget      searches after cleanup_stale / replace_merged         *)
(***************************************************************************)
EXTENDS Integers, Sequences, FiniteSets, TLC

VARIABLES
    \* ---- one turn of _run_agent_loop (loop.py:209-352) ----
    pc,                  \* "iterate" (loop head) | "tools" (inside the for loop) | "done"
    experience_mode,     \* self._experience_mode
    iteration,
    final_content,
    tools_used,
    tool_trace,
    consecutive_errors,
    total_errors,
    failed_directions,
    last_state_at,
    last_state_text,
    messages,
    response,            \* the provider's last response: tool-call count and content
    pending,             \* response.tool_calls not yet executed in this round
    calls,               \* log of the awaited calls: provider, _compress_state,
                         \* _check_sufficiency
    \* ---- the progress throttle (loop.py:114-115, 185-197, 470-483) ----
    last_progress_content,   \* self._last_progress_content: key -> (content, time)
    now,                     \* the event loop's clock, in seconds
    outbound,                \* the messages published on the bus
    progress_calls,          \* every _bus_progress call so far and what became of it
    \* ---- the experience store (memory.py) ----
    tbl,                     \* self._tbl: the rows of type "experience", in table order
    today,                   \* datetime.now(), in days
    stamps,                  \* the timestamps taken so far in this run
    reuses,                  \* the record_reuse calls of this run that matched a record
    embedding,               \* whether self._embed_fn and self._vec_tbl are set
    task_descs,              \* the task descriptions the turns of this run bring
    selected,                \* the running _merge_and_cleanup_experiences tasks: the
                             \* groups each has still to merge
    vec_tbl,                 \* self._vec_tbl: the contents of type "experience", in table order
    call,                    \* the last call on the store: operation, arguments, return value
    \* ---- sessions and memory consolidation (loop.py:94, 396-514, 643-752) ----
    session_messages,        \* key -> len(session.messages) of the cached session
    last_consolidated,       \* key -> session.last_consolidated of the cached session
    consolidating,           \* self._consolidating
    turn,                    \* the key of the turn _process_message is awaiting in, or NoKey
    consolidations,          \* the consolidation tasks created and not yet finished
    detached,                \* the session object of the last task that finished on a
                             \* session "/new" had dropped from the cache, or NoSession
    \* ---- the store as its threads see it (memory.py, loop.py:943-981) ----
    threads,                 \* thread -> the store operation it runs and the backend calls
                             \* that operation has still to make
    long_term,               \* the contents of the rows of key "long_term", in table order
    history,                 \* the contents of the rows of type "history", in table order
    written,                 \* the texts of the write_long_term calls that have returned,
                             \* in the order of their return
    \* ---- AgentLoop.run (loop.py:354-382) ----
    inbound,                 \* the inbound messages on the bus, not yet consumed
    running,                 \* self._running
    run_pc,                  \* "consume" (loop head) | "process" (in _process_message) |
                             \* "publish" (a response to publish) | "except" (in the
                             \* handler of the inner try) | "exited"
    msg,                     \* the inbound message being processed
    processed                \* what _process_message gave for it: a response, None or an
                             \* exception

loopVars == <<pc, experience_mode, iteration, final_content, tools_used, tool_trace,
              consecutive_errors, total_errors, failed_directions, last_state_at,
              last_state_text, messages, response, pending, calls>>

progressVars == <<last_progress_content, now, outbound, progress_calls>>

storeVars == <<tbl, today, stamps, reuses, embedding, task_descs, selected, vec_tbl, call>>

sessionVars == <<session_messages, last_consolidated, consolidating, turn, consolidations,
                 detached>>

threadVars == <<threads, long_term, history, written>>

runVars == <<inbound, running, run_pc, msg, processed>>

vars == <<loopVars, progressVars, storeVars, sessionVars, threadVars, runVars>>

\* what the actions of one specification leave alone
notLoopVars == <<progressVars, storeVars, sessionVars, threadVars, runVars>>
notProgressVars == <<loopVars, storeVars, sessionVars, threadVars, runVars>>
notStoreVars == <<loopVars, progressVars, sessionVars, threadVars, runVars>>
notSessionVars == <<loopVars, progressVars, storeVars, threadVars, runVars>>
\* what a backend call of a thread leaves alone besides the tables
notTableVars == <<loopVars, progressVars, sessionVars, runVars, today, reuses, embedding,
                  task_descs, selected, vec_tbl, call>>
\* what AgentLoop.run leaves alone besides the bus
notRunVars == <<loopVars, storeVars, sessionVars, threadVars, last_progress_content, now,
                progress_calls>>

\* ------------------------------------------------------------------ bounds

\* max_iterations the loop is configured with in the model (default 20 in the code)
MaxIterations == 3
\* the most tool calls of one turn the provider asks for
MaxSteps == 10
\* the most tool results of one turn that are errors
MaxErrors == 3

\* ------------------------------------------------------------- constants

\* steps_since_state >= 5 and len(tool_trace) >= 5
CheckpointEvery == 5
\* len(tool_trace) >= 8
SufficiencyFrom == 8
\* len(tool_trace) % 4 == 0
SufficiencyEvery == 4
\* consecutive_errors >= 3
StrongThreshold == 3
\* failed_directions[-5:] in the strong instruction
StrongNames == 5
\* failed_directions[-3:] in the milder instruction
MildNames == 3

\* ----------------------------------------------------------------- values

\* Python's None and a present value
None == [some |-> FALSE, v |-> <<>>]
Some(x) == [some |-> TRUE, v |-> x]

\* seq[-n:]
LastN(seq, n) ==
    IF Len(seq) <= n THEN seq ELSE SubSeq(seq, Len(seq) - n + 1, Len(seq))

\* A text is a sequence of tokens: "<think>", "</think>", " " (whitespace) or a word.
IsSpace(tok) == tok = " "

RECURSIVE FirstClose(_, _)
\* index of the first "</think>" at or after position i, 0 when there is none
FirstClose(text, i) ==
    IF i > Len(text) THEN 0
    ELSE IF text[i] = "</think>" THEN i
    ELSE FirstClose(text, i + 1)

RECURSIVE RemoveThink(_, _)
\* re.sub(r"<think>[\s\S]*?</think>", "", text), scanning from position i
RemoveThink(text, i) ==
    IF i > Len(text) THEN <<>>
    ELSE IF text[i] = "<think>" /\ FirstClose(text, i + 1) # 0
         THEN RemoveThink(text, FirstClose(text, i + 1) + 1)
    ELSE <<text[i]>> \o RemoveThink(text, i + 1)

RECURSIVE LStrip(_)
LStrip(text) ==
    IF text # <<>> /\ IsSpace(Head(text)) THEN LStrip(Tail(text)) ELSE text

RECURSIVE RStrip(_)
RStrip(text) ==
    IF text # <<>> /\ IsSpace(text[Len(text)])
    THEN RStrip(SubSeq(text, 1, Len(text) - 1))
    ELSE text

Strip_LeftOnly(text) == LStrip(text)
\* str.strip()
Strip(text) == RStrip(LStrip(text))

\* AgentLoop._strip_think
StripThink(content) ==
    IF ~content.some \/ content.v = <<>> THEN None
    ELSE LET clean == Strip(RemoveThink(content.v, 1))
         IN IF clean = <<>> THEN None ELSE Some(clean)

\* response.content of a response that carries no tool calls
FinalContents ==
    { None,
      Some(<<>>),
      Some(<<"<think>", "plan", "</think>", " ">>),
      Some(<<"<think>", "plan", "</think>", " ", "answer", " ">>) }

\* ---------------------------------------------------------------- messages

Msg(role, kind, names, text) ==
    [role |-> role, kind |-> kind, names |-> names, text |-> text]

\* context.build_messages: system prompt, history, current user turn
InitialMessages ==
    << Msg("system", "prompt", <<>>, None), Msg("user", "request", <<>>, None) >>

\* the checkpoint message of loop.py:243-248
StateMsg(n, state) == Msg("user", "state", <<n>>, state)
\* the directive of loop.py:254-259
SufficientMsg == Msg("user", "sufficient", <<>>, None)
\* context.add_assistant_message with tool_call_dicts
AssistantMsg(ids) == Msg("assistant", "tool_calls", ids, None)
ToolMsg_NextId(id, has_error) ==
    Msg("tool", IF has_error THEN "result_error" ELSE "result_ok", <<id + 1>>, None)
\* context.add_tool_result
ToolMsg(id, has_error) ==
    Msg("tool", IF has_error THEN "result_error" ELSE "result_ok", <<id>>, None)
\* loop.py:334-338
StrongMsg(failed) == Msg("user", "strong", LastN(failed, StrongNames), None)
\* loop.py:340-345
MildMsg_TwoNames(failed) ==
    Msg("user", "mild", IF Len(failed) > 1 THEN LastN(failed, 2) ELSE <<>>, None)
MildMsg(failed) ==
    Msg("user", "mild", IF Len(failed) > 1 THEN LastN(failed, MildNames) ELSE <<>>, None)

\* ------------------------------------------------------------------ oracle

\* What the oracle replies to a request: "raises" (provider.chat raises), or a
\* content: "None", "blank" (nothing but whitespace), "text" (no JSON), "list" (a
\* JSON array), "{}", "object" (an object with the asked keys; for the sufficiency
\* check: "sufficient" true), "fenced" (the same between ``` lines) or
\* "object_false" ("sufficient" false).

ParseLlmJson_ListPasses(content) ==
    CASE content \in {"None", "blank"} -> "nothing"
      [] content = "text" -> "nothing"
      [] content = "list" -> "dict"
      [] content = "{}" -> "empty_dict"
      [] content \in {"object", "fenced"} -> "dict"
      [] content = "object_false" -> "dict_false"
      [] OTHER -> "nothing"
\* loop.py:758-766: None for an empty text and for what is no dict; the fences
\* are taken off first
ParseLlmJson(content) ==
    CASE content \in {"None", "blank"} -> "nothing"
      [] content = "text" -> "nothing"
      [] content = "list" -> "nothing"
      [] content = "{}" -> "empty_dict"
      [] content \in {"object", "fenced"} -> "dict"
      [] content = "object_false" -> "dict_false"
      [] OTHER -> "nothing"

\* loop.py:782-798, within the try of loop.py:839 and 868: what the caller has
\* in hand: "raised" (it is in its except branch), "nothing" (None),
\* "empty_dict", "dict" or "dict_false"
CallExperienceLlm(reply) ==
    IF reply = "raises" THEN "raised" ELSE ParseLlmJson(reply)

\* AgentLoop._compress_state
CompressState_NoFailed(trace, failed, previous, reply) ==
    IF experience_mode = "none"
    THEN Some(<<"progress", Len(trace), <<>>, LastN(trace, 5)>>)
    ELSE IF CallExperienceLlm(reply) = "dict" THEN Some(<<"summary", Len(trace)>>)
    ELSE None
CompressState(trace, failed, previous, reply) ==
    IF experience_mode = "none"
    THEN Some(<<"progress", Len(trace), LastN(failed, 3), LastN(trace, 5)>>)
    ELSE IF CallExperienceLlm(reply) = "dict" THEN Some(<<"summary", Len(trace)>>)
    ELSE None

\* AgentLoop._check_sufficiency
CheckSufficiency(reply) ==
    IF experience_mode = "none" THEN FALSE
    ELSE CallExperienceLlm(reply) = "dict"

\* ------------------------------------------------------------------- Init

InitLocals ==
    /\ iteration = 0
    /\ final_content = None
    /\ tools_used = <<>>
    /\ tool_trace = <<>>
    /\ consecutive_errors = 0
    /\ total_errors = 0
    /\ failed_directions = <<>>
    /\ last_state_at = 0
    /\ last_state_text = None
    /\ messages = InitialMessages
    /\ response = [ncalls |-> 0, content |-> None]
    /\ pending = <<>>
    /\ calls = <<>>

InitLoop ==
    /\ pc = "iterate"
    /\ experience_mode \in {"none", "main"}
    /\ InitLocals

\* no turn is running
NoTurn ==
    /\ pc = "idle"
    /\ experience_mode = "none"
    /\ InitLocals

\* loop.py:114: self._last_progress_content = {}
InitProgress ==
    /\ last_progress_content = [k \in {} |-> <<>>]
    /\ now = 0
    /\ outbound = <<>>
    /\ progress_calls = <<>>

\* memory.py:21-23: a workspace whose table holds no experience yet
InitStore ==
    /\ tbl = <<>>
    /\ today = 0
    /\ stamps = 0
    /\ reuses = 0
    /\ embedding = FALSE
    /\ task_descs = {}
    /\ selected = <<>>
    /\ vec_tbl = <<>>
    /\ call = [op |-> "none", args |-> <<>>, ret |-> <<>>]

\* the session keys of this run: "channel:chat_id" (loop.py:408, 530)
Keys == {"cli:direct", "telegram:42"}

NoKey == "none"

\* no session object
NoSession == [key |-> NoKey, messages |-> 0, last_consolidated |-> 0]

\* loop.py:94 and session/manager.py:69-73: nothing cached, nothing running
InitSessions ==
    /\ session_messages = [k \in Keys |-> 0]
    /\ last_consolidated = [k \in Keys |-> 0]
    /\ consolidating = {}
    /\ turn = NoKey
    /\ consolidations = <<>>
    /\ detached = NoSession

\* memory.py:21-28: no operation runs, and the table holds neither a long-term
\* record nor history
InitThreads ==
    /\ threads = <<>>
    /\ long_term = <<>>
    /\ history = <<>>
    /\ written = <<>>

\* loop.py:89: self._running = False, and nothing on the bus
InitRun ==
    /\ inbound = <<>>
    /\ running = FALSE
    /\ run_pc = "exited"
    /\ msg = <<>>
    /\ processed = <<>>

Init == InitLoop /\ InitProgress /\ InitStore /\ InitSessions /\ InitThreads /\ InitRun

\* -------------------------------------------------------- _run_agent_loop

\* an awaited call: whom, the trace length and the message count at the call, and
\* what it returned ("summary" | "none", "yes" | "no", "tool_calls" | "final")
Call(to, at, nmsgs, reply) == [to |-> to, at |-> at, nmsgs |-> nmsgs, reply |-> reply]

LoopCondition_OffByOne == iteration <= MaxIterations
\* loop.py:234: while iteration < self.max_iterations
LoopCondition == iteration < MaxIterations

\* loop.py:840, 869 and 782-795: outside the mode "none" _compress_state and
\* _check_sufficiency ask the oracle through _call_experience_llm; the call is
\* noted with what the oracle replied
Asked(cs, n, nmsgs, reply) ==
    IF experience_mode = "none" THEN cs ELSE Append(cs, Call("oracle", n, nmsgs, reply))

CheckpointDue_NoCursor == Len(tool_trace) >= CheckpointEvery
\* loop.py:237-238: whether the checkpoint branch is taken
CheckpointDue ==
    /\ Len(tool_trace) - last_state_at >= CheckpointEvery
    /\ Len(tool_trace) >= CheckpointEvery

\* loop.py:252: whether _check_sufficiency is called
SufficiencyDue ==
    /\ Len(tool_trace) >= SufficiencyFrom
    /\ Len(tool_trace) % SufficiencyEvery = 0

\* the oracle's replies an iteration can observe ("unasked": the step is not
\* due; "local": no oracle is called): in the mode "main" one reply of each
\* outcome, in the mode "utility" every kind of failing reply and one that
\* succeeds
CompressInputs ==
    IF ~CheckpointDue THEN {"unasked"}
    ELSE IF experience_mode = "none" THEN {"local"}
    ELSE IF experience_mode = "main" THEN {"None", "{}", "object"}
    ELSE {"raises", "blank", "text", "list", "fenced"}

SufficiencyInputs ==
    IF ~SufficiencyDue THEN {"unasked"}
    ELSE IF experience_mode = "none" THEN {"local"}
    ELSE IF experience_mode = "main" THEN {"None", "object_false", "object"}
    ELSE {"raises", "None", "text", "list", "object"}

\* loop.py:234-301 and 348-350: one pass from the loop head to the provider's
\* response: the checkpoint, the sufficiency gate, the provider call and either
\* the assistant message of a tool round or the final answer.  The turn runs
\* without a progress callback (on_progress is None, as in the call of
\* loop.py:561); the callback of loop.py:470-483 is the subject of SpecProgress.
Iterate ==
    /\ pc = "iterate"
    /\ LoopCondition
    /\ iteration' = iteration + 1
    /\ \E cres \in CompressInputs, sres \in SufficiencyInputs,
          ncalls \in 0..(MaxSteps - Len(tool_trace)) :
       \E content \in IF ncalls = 0 THEN FinalContents ELSE {None} :
        LET n == Len(tool_trace)
            state == CompressState(tool_trace, failed_directions, last_state_text, cres)
            inject == CheckpointDue /\ state.some
            m1 == IF inject THEN Append(messages, StateMsg(n, state)) ELSE messages
            sufficient == SufficiencyDue /\ CheckSufficiency(sres)
            m2 == IF sufficient THEN Append(m1, SufficientMsg) ELSE m1
            c1 == IF CheckpointDue
                  THEN Append(Asked(calls, n, Len(messages), cres),
                              Call("compress", n, Len(messages),
                                   IF state.some THEN "summary" ELSE "none"))
                  ELSE calls
            c2 == IF SufficiencyDue
                  THEN Append(Asked(c1, n, Len(m1), sres),
                              Call("sufficiency", n, Len(m1),
                                   IF CheckSufficiency(sres) THEN "yes" ELSE "no"))
                  ELSE c1
            c3 == Append(c2, Call("provider", n, Len(m2),
                                  IF ncalls > 0 THEN "tool_calls" ELSE "final"))
            ids == [i \in 1..ncalls |-> n + i]
        IN  /\ last_state_at' = IF inject THEN n ELSE last_state_at
            /\ last_state_text' = IF inject THEN state ELSE last_state_text
            /\ calls' = c3
            /\ response' = [ncalls |-> ncalls, content |-> content]
            /\ IF ncalls > 0
               THEN /\ messages' = Append(m2, AssistantMsg(ids))
                    /\ pending' = ids
                    /\ pc' = "tools"
                    /\ UNCHANGED final_content
               ELSE /\ messages' = m2
                    /\ final_content' = StripThink(content)
                    /\ pc' = "done"
                    /\ UNCHANGED pending
    /\ UNCHANGED <<experience_mode, tools_used, tool_trace, consecutive_errors,
                   total_errors, failed_directions>>
    /\ UNCHANGED notLoopVars

ConsecutiveAfter_NoReset(n, has_error) == IF has_error THEN n + 1 ELSE n
\* loop.py:321-331: consecutive_errors after one tool result
ConsecutiveAfter(n, has_error) == IF has_error THEN n + 1 ELSE 0

\* loop.py:304-331: one pass of the for loop over response.tool_calls
ExecuteTool ==
    /\ pc = "tools"
    /\ pending # <<>>
    /\ \E has_error \in BOOLEAN :
        LET id == Head(pending)
        IN  /\ has_error => total_errors < MaxErrors
            /\ tools_used' = Append(tools_used, id)
            /\ messages' = Append(messages, ToolMsg(id, has_error))
            /\ tool_trace' = Append(tool_trace, [id |-> id, error |-> has_error])
            /\ consecutive_errors' = ConsecutiveAfter(consecutive_errors, has_error)
            /\ total_errors' = IF has_error THEN total_errors + 1 ELSE total_errors
            /\ failed_directions' = IF has_error THEN Append(failed_directions, id)
                                    ELSE failed_directions
            /\ pending' = Tail(pending)
    /\ UNCHANGED <<pc, experience_mode, iteration, final_content, last_state_at,
                   last_state_text, response, calls>>
    /\ UNCHANGED notLoopVars

ErrorFeedback_StrictThreshold ==
    IF consecutive_errors > StrongThreshold THEN Some(StrongMsg(failed_directions))
    ELSE IF consecutive_errors > 0 THEN Some(MildMsg(failed_directions))
    ELSE None
\* loop.py:333-345: error_feedback after the for loop
ErrorFeedback ==
    IF consecutive_errors >= StrongThreshold THEN Some(StrongMsg(failed_directions))
    ELSE IF consecutive_errors > 0 THEN Some(MildMsg(failed_directions))
    ELSE None

\* loop.py:346-347: the end of a tool round
EndRound ==
    /\ pc = "tools"
    /\ pending = <<>>
    /\ messages' = IF ErrorFeedback.some THEN Append(messages, ErrorFeedback.v)
                   ELSE messages
    /\ pc' = "iterate"
    /\ UNCHANGED <<experience_mode, iteration, final_content, tools_used, tool_trace,
                   consecutive_errors, total_errors, failed_directions, last_state_at,
                   last_state_text, response, pending, calls>>
    /\ UNCHANGED notLoopVars

\* loop.py:234 and 352: the while condition fails and the function returns
Exhausted ==
    /\ pc = "iterate"
    /\ ~LoopCondition
    /\ pc' = "done"
    /\ UNCHANGED <<experience_mode, iteration, final_content, tools_used, tool_trace,
                   consecutive_errors, total_errors, failed_directions, last_state_at,
                   last_state_text, messages, response, pending, calls>>
    /\ UNCHANGED notLoopVars

Next == Iterate \/ ExecuteTool \/ EndRound \/ Exhausted

Spec == Init /\ [][Next]_vars

\* ================================================================== claims
\* ----------------------------------------------- reading the turn's history

ProviderCalls == SelectSeq(calls, LAMBDA c : c.to = "provider")

\* the positions in messages of the messages of one kind
KindAt(kind) == { i \in 1..Len(messages) : messages[i].kind = kind }

RECURSIVE TrailingErrors(_)
\* how many error results end a trace
TrailingErrors(trace) ==
    IF trace = <<>> \/ ~trace[Len(trace)].error THEN 0
    ELSE 1 + TrailingErrors(SubSeq(trace, 1, Len(trace) - 1))

\* the first k entries of the trace
Prefix(k) == SubSeq(tool_trace, 1, k)

\* the failed tool calls among the first k, in call order
FailedUpTo(k) == SelectSeq([j \in 1..k |-> j], LAMBDA j : tool_trace[j].error)

\* the trace lengths at which a tool round has ended and its feedback been decided
RoundEnds ==
    { messages[i].names[Len(messages[i].names)] : i \in KindAt("tool_calls") }
        \ (IF pc = "tools" THEN {Len(tool_trace) + Len(pending)} ELSE {})

\* the position of the tool message of call k, and what follows it
ToolMsgAt(k) ==
    CHOOSE i \in 1..Len(messages) : messages[i].role = "tool" /\ messages[i].names = <<k>>
KindAfter(k) ==
    IF ToolMsgAt(k) < Len(messages) THEN messages[ToolMsgAt(k) + 1].kind ELSE "nothing"

IsCorrective(kind) == kind \in {"strong", "mild"}

Min(a, b) == IF a < b THEN a ELSE b
MaxOf(S) == CHOOSE x \in S : \A y \in S : y <= x

\* -------------------------------------------------------------------- C1
\* C1: the loop makes at most max_iterations provider calls and then returns (no
\* state short of the return is stuck); a turn in which every provider response
\* carried tool calls ends after exactly max_iterations calls with final content
\* none.
C1_TerminatesWithinBudget ==
    /\ Len(ProviderCalls) <= MaxIterations
    /\ Len(ProviderCalls) = iteration
    /\ pc # "done" => ENABLED Next
    /\ (pc = "done" /\ \A i \in 1..Len(ProviderCalls) : ProviderCalls[i].reply = "tool_calls")
         => /\ final_content = None
            /\ Len(ProviderCalls) = MaxIterations

C1_Witness ==
    /\ pc = "done"
    /\ Len(ProviderCalls) = MaxIterations
    /\ \A i \in 1..Len(ProviderCalls) : ProviderCalls[i].reply = "tool_calls"
    /\ final_content = None

\* -------------------------------------------------------------------- C2
\* C2: the consecutive-error counter is the number of error results that end the
\* trace: 0 right after any non-error result, and at the threshold only when the
\* last three results were errors with no success between them; the cumulative
\* counter counts every error; every strong instruction follows three such errors.
C2_ConsecutiveErrorCounter ==
    /\ consecutive_errors = TrailingErrors(tool_trace)
    /\ total_errors = Len(FailedUpTo(Len(tool_trace)))
    /\ (tool_trace # <<>> /\ ~tool_trace[Len(tool_trace)].error) => consecutive_errors = 0
    /\ consecutive_errors >= StrongThreshold
         <=> /\ Len(tool_trace) >= StrongThreshold
             /\ \A j \in (Len(tool_trace) - StrongThreshold + 1)..Len(tool_trace) :
                    tool_trace[j].error
    /\ \A i \in KindAt("strong") :
         LET k == messages[i - 1].names[1]
         IN  /\ messages[i - 1].role = "tool"
             /\ k >= StrongThreshold
             /\ \A j \in (k - StrongThreshold + 1)..k : tool_trace[j].error

C2_Witness ==
    /\ consecutive_errors = StrongThreshold
    /\ \E j \in 1..Len(tool_trace) : ~tool_trace[j].error
    /\ KindAt("strong") # {}

\* -------------------------------------------------------------------- C3
\* C3 as claimed: whenever the counter reached 3 during a round, also in the middle
\* of it, the round ends with a strong corrective instruction.
C3_StrongWheneverThreeReached ==
    \A k \in RoundEnds :
        LET first == messages[CHOOSE i \in KindAt("tool_calls") :
                                  messages[i].names[Len(messages[i].names)] = k].names[1]
        IN  (\E j \in first..k : TrailingErrors(Prefix(j)) = StrongThreshold)
                => KindAfter(k) = "strong"

\* C3 amended: a round of tool calls ends with a strong corrective instruction
\* exactly when the counter is 3 or more at the end of the round; the instruction
\* names the (up to 5) most recent failed directions and is in the message list
\* at the next provider call.
C3_StrongAtRoundEnd ==
    \A k \in RoundEnds :
        /\ KindAfter(k) = "strong" <=> TrailingErrors(Prefix(k)) >= StrongThreshold
        /\ KindAfter(k) = "strong" =>
             /\ messages[ToolMsgAt(k) + 1].names
                  = LastN(FailedUpTo(k), Min(5, Len(FailedUpTo(k))))
             /\ \A i \in 1..Len(ProviderCalls) :
                  ProviderCalls[i].at = k => ProviderCalls[i].nmsgs >= ToolMsgAt(k) + 1

C3_Witness ==
    \E k \in RoundEnds :
        /\ KindAfter(k) = "strong"
        /\ \E i \in 1..Len(ProviderCalls) : ProviderCalls[i].at = k
        /\ \E j \in 1..k : ~tool_trace[j].error

InThink(text, i) ==
    \E o \in 1..i, c \in i..Len(text) : text[o] = "<think>" /\ text[c] = "</think>"

\* the text has a token that is neither whitespace nor in a think block
HasVisible(content) ==
    content.some /\ \E i \in 1..Len(content.v) :
        ~IsSpace(content.v[i]) /\ ~InThink(content.v, i)

\* C5 as claimed: the turn returns none only if the budget ran out without a
\* response free of tool calls; a turn that ends on such a response returns a
\* non-none final answer.
C5_NoneOnlyWhenExhausted ==
    pc = "done" =>
        /\ final_content = None => response.ncalls > 0
        /\ response.ncalls = 0 => final_content.some

\* C5 amended: a turn that ends on a response without tool calls returns the
\* response's content with its think blocks removed and its ends stripped, which
\* is none when nothing but whitespace and think blocks is in it; the turn
\* returns none only then or when the budget ran out; after the return no
\* further provider or tool call is made.
C5_FinalAnswer ==
    pc = "done" =>
        /\ ~ENABLED Next
        /\ response.ncalls = 0 =>
             /\ final_content.some <=> HasVisible(response.content)
             /\ final_content.some =>
                  LET out == final_content.v
                  IN  /\ ~IsSpace(out[1]) /\ ~IsSpace(out[Len(out)])
                      /\ \A i \in 1..Len(out) : out[i] \notin {"<think>", "</think>"}
                      /\ \E o \in 0..Len(response.content.v) - Len(out) :
                             \A i \in 1..Len(out) : out[i] = response.content.v[o + i]
             /\ calls[Len(calls)].to = "provider" /\ calls[Len(calls)].reply = "final"
             /\ messages[Len(messages)].role # "assistant"
        /\ final_content = None =>
             \/ response.ncalls = 0 /\ ~HasVisible(response.content)
             \/ response.ncalls > 0 /\ iteration = MaxIterations

C5_Witness ==
    /\ pc = "done"
    /\ response.ncalls = 0
    /\ response.content.some /\ response.content.v # <<>>
    /\ final_content = None
    /\ iteration < MaxIterations

\* -------------------------------------------------------------------- C6
\* the trace lengths named by the checkpoint messages injected so far
Checkpoints == { messages[i].names[1] : i \in KindAt("state") }

\* the trace length at the last checkpoint injected before trace length n
CheckpointBefore(n) == MaxOf({0} \cup { t \in Checkpoints : t < n })

CallsTo(to, n) == { i \in 1..Len(calls) : calls[i].to = to /\ calls[i].at = n }

\* C6: at the start of an iteration a checkpoint is injected only if at least 5
\* trace entries have accumulated since the last injected checkpoint, and it is
\* injected whenever that holds and a summary is available; two checkpoints of a
\* turn are at least 5 trace entries apart.
C6_CheckpointCadence ==
    /\ \A t \in Checkpoints : t - CheckpointBefore(t) >= CheckpointEvery
    /\ \A i, j \in KindAt("state") : messages[i].names = messages[j].names => i = j
    /\ \A p \in 1..Len(ProviderCalls) :
         LET n == ProviderCalls[p].at
             due == n - CheckpointBefore(n) >= CheckpointEvery
         IN  /\ n \in Checkpoints => due
             /\ due <=> CallsTo("compress", n) # {}
             /\ (due /\ \E c \in CallsTo("compress", n) : calls[c].reply = "summary")
                  => /\ n \in Checkpoints
                     /\ \E i \in KindAt("state") :
                          messages[i].names = <<n>> /\ i <= ProviderCalls[p].nmsgs
    /\ last_state_at = CheckpointBefore(Len(tool_trace) + 1)

C6_Witness ==
    /\ Cardinality(Checkpoints) >= 2
    /\ \E p \in 1..Len(ProviderCalls) : ProviderCalls[p].at = MaxOf(Checkpoints)

\* -------------------------------------------------------------------- C7
\* C7 as claimed: once 8 tool steps have occurred, the sufficiency oracle is asked
\* at step 8 and at every 4th step after it before the next provider call,
\* however the calls are spread over rounds; on a yes the directive is in the
\* message list at that provider call.
C7_AskedAtEveryFourthStep ==
    experience_mode # "none" =>
        \A p \in 1..Len(ProviderCalls) :
            LET n == ProviderCalls[p].at
                prev == IF p = 1 THEN 0 ELSE ProviderCalls[p - 1].at
            IN  (\E m \in (prev + 1)..n : m >= SufficiencyFrom /\ m % SufficiencyEvery = 0)
                    => /\ CallsTo("sufficiency", n) # {}
                       /\ \A c \in CallsTo("sufficiency", n) :
                            calls[c].reply = "yes" =>
                                messages[ProviderCalls[p].nmsgs].kind = "sufficient"

\* ================================================= the progress throttle

\* the most _bus_progress calls of a run
MaxProgress == 4
\* the last clock reading, in seconds
MaxTime == 3

\* loop.py:115: self._progress_min_interval = 2.0
ProgressMinInterval == 2

\* (channel, chat_id) of the inbound messages whose turns report progress; a
\* chat id may itself hold a colon
Destinations ==
    { << <<"tg">>, <<"1", ":", "1">> >>,
      << <<"tg", ":", "1">>, <<"1">> >>,
      << <<"tg">>, <<"2">> >> }

\* the progress texts: stripped reasoning or a tool hint
ProgressContents == {"thinking", "read_file"}

\* loop.py:186: key = f"{channel}:{chat_id}"
ProgressKey(channel, chat_id) == channel \o <<":">> \o chat_id

ShouldSendProgress_AtMostInterval(d, key, content, t) ==
    IF key \in DOMAIN d
    THEN IF content = d[key][1] THEN FALSE
         ELSE IF t - d[key][2] <= ProgressMinInterval THEN FALSE
         ELSE TRUE
    ELSE TRUE
\* loop.py:185-197: the decision of _should_send_progress on the dictionary d at
\* clock reading t
ShouldSendProgress(d, key, content, t) ==
    IF key \in DOMAIN d
    THEN IF content = d[key][1] THEN FALSE
         ELSE IF t - d[key][2] < ProgressMinInterval THEN FALSE
         ELSE TRUE
    ELSE TRUE

\* loop.py:196: self._last_progress_content[key] = (content, now)
Remember(d, key, content, t) ==
    [k \in DOMAIN d \cup {key} |-> IF k = key THEN <<content, t>> ELSE d[k]]

InitThrottle == NoTurn /\ InitProgress /\ InitStore /\ InitSessions /\ InitThreads /\ InitRun

\* loop.py:470-483: one call of _bus_progress, with the dictionary update of
\* _should_send_progress and the publication it leads to
BusProgress ==
    /\ Len(progress_calls) < MaxProgress
    /\ \E dest \in Destinations, content \in ProgressContents :
        LET key == ProgressKey(dest[1], dest[2])
            send == ShouldSendProgress(last_progress_content, key, content, now)
        IN  /\ last_progress_content' =
                   IF send THEN Remember(last_progress_content, key, content, now)
                   ELSE last_progress_content
            /\ outbound' =
                   IF send
                   THEN Append(outbound, [channel |-> dest[1], chat_id |-> dest[2],
                                          content |-> content])
                   ELSE outbound
            /\ progress_calls' =
                   Append(progress_calls, [key |-> key, channel |-> dest[1],
                                           chat_id |-> dest[2], content |-> content,
                                           time |-> now, sent |-> send])
    /\ UNCHANGED now
    /\ UNCHANGED notProgressVars

\* loop.py:187: the event loop's clock moves on between two calls
Tick ==
    /\ now < MaxTime
    /\ now' = now + 1
    /\ UNCHANGED <<last_progress_content, outbound, progress_calls>>
    /\ UNCHANGED notProgressVars

NextProgress == BusProgress \/ Tick

SpecProgress == InitThrottle /\ [][NextProgress]_vars

\* ------------------------------------------------------------ claim C8

\* the calls before the i-th one that went to its key
EarlierToKey(i) ==
    {j \in 1..(i - 1) : progress_calls[j].key = progress_calls[i].key}

\* those of them that were delivered
DeliveredToKey(i) == {j \in EarlierToKey(i) : progress_calls[j].sent}

\* the published messages, as (channel, chat_id, content)
Published ==
    LET sent == SelectSeq(progress_calls, LAMBDA e : e.sent)
    IN  [i \in 1..Len(sent) |-> [channel |-> sent[i].channel,
                                 chat_id |-> sent[i].chat_id,
                                 content |-> sent[i].content]]

\* C8: a progress message is delivered if and only if it is the first for its
\* key (channel:chat_id), or it differs from the content last delivered to that
\* key and at least 2 seconds have passed since that delivery; suppressed
\* messages and messages to other keys play no part in the decision, and the
\* bus carries exactly the delivered messages, in order.
C8_ProgressThrottle ==
    /\ \A i \in 1..Len(progress_calls) :
        LET e == progress_calls[i]
        IN  e.sent <=>
              \/ EarlierToKey(i) = {}
              \/ /\ DeliveredToKey(i) # {}
                 /\ LET last == progress_calls[MaxOf(DeliveredToKey(i))]
                    IN  /\ e.content # last.content
                        /\ e.time - last.time >= 2
    /\ outbound = Published

\* a delivery, then a different content suppressed less than 2 seconds later, a
\* message to another key, and the same content delivered once 2 seconds have
\* passed since the first delivery
C8_Witness ==
    \E i, j, k, o \in 1..Len(progress_calls) :
        /\ i < j /\ j < k /\ i < o /\ o < k
        /\ progress_calls[i].key = progress_calls[j].key
        /\ progress_calls[i].key = progress_calls[k].key
        /\ progress_calls[o].key # progress_calls[i].key
        /\ DeliveredToKey(k) = {i}
        /\ progress_calls[j].content # progress_calls[i].content
        /\ progress_calls[j].content = progress_calls[k].content
        /\ ~progress_calls[j].sent
        /\ progress_calls[k].sent
        /\ progress_calls[k].time - progress_calls[i].time = 2

\* ================================================== the experience store
\*
\* A content is a sequence of lines and a line a sequence of words: the text with
\* its lines split at "\n" and its words at blanks.  Words are strings, so that
\* prefixes, substrings, lower-casing and numerals are computed on characters.

\* the most timestamps a run takes (append_experience and replace_merged calls)
MaxStamps == 1
\* the most record_reuse calls of a run that match a record
MaxReuses == 2

\* memory.py:400: max_deprecated_days
MaxDeprecatedDays == 30
\* memory.py:400: max_low_quality_days
MaxLowQualityDays == 90
\* memory.py:305, 310: the age of a record without a usable timestamp
DefaultAgeDays == 30
\* memory.py:421: min_count
MergeMinCount == 5
\* memory.py:439: len(entries) >= 3
MergeGroupSize == 3
\* loop.py:956, 981: entries[:6]
MergeBatch == 6
\* memory.py:274: the quality of a content without a quality line
DefaultQuality == 3
\* memory.py:379: if uses >= 3
AdjustFromUses == 3
\* loop.py:926, 978 and memory.py:383, 385: the quality range
MinQuality == 1
MaxQuality == 5

Digits == <<"0", "1", "2", "3", "4", "5", "6", "7", "8", "9">>

RECURSIVE Str(_)
\* str(n) of an int
Str(n) ==
    IF n < 0 THEN "-" \o Str(-n)
    ELSE IF n < 10 THEN Digits[n + 1]
    ELSE Str(n \div 10) \o Digits[(n % 10) + 1]

IsDigits(s) ==
    /\ Len(s) > 0
    /\ \A i \in 1..Len(s) : \E d \in 1..10 : SubSeq(s, i, i) = Digits[d]

DigitVal(c) == (CHOOSE d \in 1..10 : Digits[d] = c) - 1

RECURSIVE NatVal(_)
NatVal(s) ==
    IF Len(s) = 0 THEN 0
    ELSE NatVal(SubSeq(s, 1, Len(s) - 1)) * 10 + DigitVal(SubSeq(s, Len(s), Len(s)))

\* int(s) of a word: Some(n), or None where int raises ValueError
ParseInt(s) ==
    IF IsDigits(s) THEN Some(NatVal(s))
    ELSE IF Len(s) > 1 /\ SubSeq(s, 1, 1) = "-" /\ IsDigits(SubSeq(s, 2, Len(s)))
         THEN Some(0 - NatVal(SubSeq(s, 2, Len(s))))
    ELSE None

LowerChar(c) ==
    CASE c = "C" -> "c" [] c = "D" -> "d" [] c = "K" -> "k" [] c = "L" -> "l"
      [] c = "O" -> "o" [] c = "Q" -> "q" [] c = "S" -> "s" [] c = "T" -> "t"
      [] c = "U" -> "u" [] OTHER -> c

RECURSIVE Lower(_)
\* str.lower of a word
Lower(s) ==
    IF Len(s) = 0 THEN "" ELSE LowerChar(SubSeq(s, 1, 1)) \o Lower(SubSeq(s, 2, Len(s)))

\* k in s, for two words
InWord(k, s) ==
    \E i \in 1..(Len(s) - Len(k) + 1) : SubSeq(s, i, i + Len(k) - 1) = k

\* The words the calls of the model are made of.  Lower-casing and the substring
\* test are tabulated over them once; any other word is computed on the spot.
KnownWords ==
    {"[Task]", "[Outcome]", "[Category]", "[Quality]", "[Uses]", "[Successes]",
     "[Lessons]", "[Keywords]", "[Trace]", "[Deprecated]",
     "git", "rebase", "Deploy", "deploy", "a", "service", "ssh",
     "prefer", "small", "steps", "success", "failed", "partial", "coding",
     "general", "push", "stash", "fetch", "changes",
     "0", "1", "2", "3", "4", "5", "6", "7", "8", "9"}

LowerTable == [w \in KnownWords |-> Lower(w)]

\* str.lower of a word, from the table where it holds the word
LowerOf(w) == IF w \in KnownWords THEN LowerTable[w] ELSE Lower(w)

KnownLower == {LowerTable[w] : w \in KnownWords}

OccursTable == [w \in KnownWords |-> {k \in KnownLower : InWord(k, LowerTable[w])}]

\* kw in w.lower(), from the table where it holds both words
InLower(kw, w) ==
    IF w \in KnownWords /\ kw \in KnownLower THEN kw \in OccursTable[w]
    ELSE InWord(kw, Lower(w))

\* the words of a content
Words(content) ==
    UNION {{content[i][j] : j \in 1..Len(content[i])} : i \in 1..Len(content)}

\* kw in content.lower(), for a keyword (which holds no blank)
InContent(kw, content) ==
    \E i \in 1..Len(content) : \E j \in 1..Len(content[i]) : InLower(kw, content[i][j])

\* the known words that hold the marker
MarkedWords == {w \in KnownWords : InWord("[Deprecated]", w)}

\* "[Deprecated]" in content
IsDeprecated(content) ==
    \E i \in 1..Len(content) : \E j \in 1..Len(content[i]) :
        IF content[i][j] \in KnownWords THEN content[i][j] \in MarkedWords
        ELSE InWord("[Deprecated]", content[i][j])

\* f"[{field}]"
Label(field) == "[" \o field \o "]"

\* line.startswith(f"[{field}]")
StartsWith(line, field) ==
    LET label == Label(field)
    IN  /\ Len(line) > 0
        /\ \/ line[1] = label
           \/ /\ Len(line[1]) > Len(label)
              /\ SubSeq(line[1], 1, Len(label)) = label

\* f"[{field}] {text}": the label, then the text, whose first line goes on the
\* label's line
Field(field, text) ==
    IF Len(text) = 0 THEN << <<Label(field)>> >>
    ELSE << <<Label(field)>> \o text[1] >> \o SubSeq(text, 2, Len(text))

\* a one-line text of one word
Word(w) == << <<w>> >>

\* line.split("]", 1)[1].strip(), as words, of a line that starts with the label
AfterLabel(line, field) ==
    LET rest == SubSeq(line[1], Len(Label(field)) + 1, Len(line[1]))
    IN  (IF Len(rest) = 0 THEN <<>> ELSE <<rest>>) \o Tail(line)

\* int(...) of the words after a label: a single numeral, or ValueError
IntAfterLabel(line, field) ==
    LET after == AfterLabel(line, field)
    IN  IF Len(after) = 1 THEN ParseInt(after[1]) ELSE None

RECURSIVE ParseIntFrom(_, _, _, _)
ParseIntFrom(content, field, default, i) ==
    IF i > Len(content) THEN default
    ELSE IF ~StartsWith(content[i], field)
         THEN ParseIntFrom(content, field, default, i + 1)
    ELSE LET n == IntAfterLabel(content[i], field)
         IN  IF n.some THEN n.v ELSE ParseIntFrom(content, field, default, i + 1)

\* memory.py:262-270: the first line of the field that holds an int, else the default
ParseIntField(content, field, default) == ParseIntFrom(content, field, default, 1)

\* memory.py:272-274
ParseQuality(content) == ParseIntField(content, "Quality", DefaultQuality)

\* the lines of the field, by index
FieldLines(content, field) == {i \in 1..Len(content) : StartsWith(content[i], field)}

\* memory.py:276-284: the first line of the field is rewritten, or a line is added
SetField(content, field, value) ==
    IF FieldLines(content, field) # {}
    THEN LET i == CHOOSE k \in FieldLines(content, field) :
                      \A m \in FieldLines(content, field) : k <= m
         IN  [content EXCEPT ![i] = <<Label(field), value>>]
    ELSE Append(content, <<Label(field), value>>)

\* memory.py:286-291: the text of the first line of the field, as words
ParseField(content, field) ==
    IF FieldLines(content, field) # {}
    THEN LET i == CHOOSE k \in FieldLines(content, field) :
                      \A m \in FieldLines(content, field) : k <= m
         IN  AfterLabel(content[i], field)
    ELSE <<>>

\* memory.py:193-198, as the pair (successes, uses): 1.0 below two uses
Confidence(content) ==
    LET uses == ParseIntField(content, "Uses", 0)
        successes == ParseIntField(content, "Successes", 0)
    IN  IF uses < 2 THEN <<1, 1>> ELSE <<successes, uses>>

\* a timestamp: the day and the order within the run; <<>> is the empty string
\* and a tuple of another length a text that datetime.fromisoformat rejects
Timestamp(day, n) == <<day, n>>

\* memory.py:302-310: the days between a timestamp and now
DaysSince(ts, day) ==
    IF ts = <<>> THEN DefaultAgeDays
    ELSE IF Len(ts) # 2 THEN DefaultAgeDays
    ELSE IF day - ts[1] < 0 THEN 0 ELSE day - ts[1]

\* a row of the table
Row(key, content, updated_at) ==
    [key |-> key, content |-> content, type |-> "experience", updated_at |-> updated_at]

\* self._tbl.delete(f"key = '{key}'")
Delete(rows, key) == SelectSeq(rows, LAMBDA r : r.key # key)

UpdateExperienceRow_Restamped(rows, r, new_content) ==
    Append(Delete(rows, r.key), Row(r.key, new_content, <<>>))
\* memory.py:312-324: the row is deleted by key and added again with the new
\* content and its old updated_at
UpdateExperienceRow(rows, r, new_content) ==
    Append(Delete(rows, r.key), Row(r.key, new_content, r.updated_at))

\* memory.py:328: the lower-cased words of the task of length >= 2
Keywords(task_desc) == {LowerOf(w) : w \in {x \in Words(task_desc) : Len(x) >= 2}}

\* memory.py:336: the keywords that occur in the content
Hits(keywords, content) == Cardinality({kw \in keywords : InContent(kw, content)})

MatchExperienceRows_WithDeprecated(rows, task_desc, tenths) ==
    LET keywords == Keywords(task_desc)
    IN  IF keywords = {} THEN <<>>
        ELSE SelectSeq(rows, LAMBDA r :
                 10 * Hits(keywords, r.content) >= Cardinality(keywords) * tenths)
\* memory.py:326-339: the active rows that hold the share `tenths`/10 of the
\* task's keywords, in table order
MatchExperienceRows(rows, task_desc, tenths) ==
    LET keywords == Keywords(task_desc)
    IN  IF keywords = {} THEN <<>>
        ELSE SelectSeq(rows, LAMBDA r :
                 /\ ~IsDeprecated(r.content)
                 /\ 10 * Hits(keywords, r.content) >= Cardinality(keywords) * tenths)

\* memory.py:374: threshold=0.4, in tenths
ReuseTenths == 4
\* memory.py:344: threshold=0.5, in tenths
DeprecateTenths == 5
\* loop.py:955: groups[:2]
MergeGroups == 2

\* seq[:n]
FirstN(seq, n) == SubSeq(seq, 1, IF Len(seq) < n THEN Len(seq) ELSE n)

\* memory.py:176-180: the content append_experience writes; an empty text is <<>>
ExperienceContent(task, outcome, lessons, quality, category, keywords, reasoning_trace) ==
    Field("Task", task) \o Field("Outcome", outcome) \o Field("Category", category)
    \o Field("Quality", Word(Str(quality))) \o Field("Uses", Word("0"))
    \o Field("Successes", Word("0")) \o Field("Lessons", lessons)
    \o (IF keywords # <<>> THEN Field("Keywords", keywords) ELSE <<>>)
    \o (IF reasoning_trace # <<>> THEN Field("Trace", reasoning_trace) ELSE <<>>)

\* memory.py:165-191: the table after append_experience at timestamp ts
AppendedTo(rows, e, ts) ==
    Append(rows, Row(<<"experience", ts>>,
                     ExperienceContent(e.task, e.outcome, e.lessons, e.quality,
                                       e.category, e.keywords, e.reasoning_trace),
                     ts))

QualityAfterReuse_NoCap(q, uses, successes) ==
    IF 5 * successes >= 4 * uses THEN q + 1
    ELSE IF 5 * successes < 2 * uses THEN (IF q - 1 < MinQuality THEN MinQuality ELSE q - 1)
    ELSE q
\* memory.py:380-387: conf >= 0.8 raises the quality, conf < 0.4 lowers it
QualityAfterReuse(q, uses, successes) ==
    IF 5 * successes >= 4 * uses THEN (IF q + 1 > MaxQuality THEN MaxQuality ELSE q + 1)
    ELSE IF 5 * successes < 2 * uses THEN (IF q - 1 < MinQuality THEN MinQuality ELSE q - 1)
    ELSE q

UsesAfterReuse_Unchanged(n) == n
\* memory.py:375: uses + 1
UsesAfterReuse(n) == n + 1

SuccessesAfterReuse_Always(n, success) == n + 1
\* memory.py:376: successes + (1 if success else 0)
SuccessesAfterReuse(n, success) == n + (IF success THEN 1 ELSE 0)

\* memory.py:375-388: the content of a matched record after one reuse
ReusedContent(content, success) ==
    LET uses == UsesAfterReuse(ParseIntField(content, "Uses", 0))
        successes == SuccessesAfterReuse(ParseIntField(content, "Successes", 0), success)
        u1 == SetField(content, "Uses", Str(uses))
        u2 == SetField(u1, "Successes", Str(successes))
    IN  IF uses >= AdjustFromUses
        THEN SetField(u2, "Quality", Str(QualityAfterReuse(ParseQuality(u2), uses, successes)))
        ELSE u2

RECURSIVE ReuseEach(_, _, _, _)
ReuseEach(rows, matches, success, i) ==
    IF i > Len(matches) THEN rows
    ELSE ReuseEach(UpdateExperienceRow(rows, matches[i],
                                       ReusedContent(matches[i].content, success)),
                   matches, success, i + 1)

\* memory.py:371-398: the table after record_reuse
RecordReuseOn(rows, task_desc, success) ==
    ReuseEach(rows, MatchExperienceRows(rows, task_desc, ReuseTenths), success, 1)

\* memory.py:345: f"[Deprecated] {content}"
Deprecated(content) ==
    IF Len(content) = 0 THEN << <<"[Deprecated]">> >>
    ELSE [content EXCEPT ![1] = <<"[Deprecated]">> \o @]

RECURSIVE DeprecateEach(_, _, _)
DeprecateEach(rows, matches, i) ==
    IF i > Len(matches) THEN rows
    ELSE DeprecateEach(UpdateExperienceRow(rows, matches[i], Deprecated(matches[i].content)),
                       matches, i + 1)

DeprecateSimilarOn_ReuseThreshold(rows, task_desc) ==
    DeprecateEach(rows, MatchExperienceRows(rows, task_desc, ReuseTenths), 1)
\* memory.py:341-352: the table after deprecate_similar
DeprecateSimilarOn(rows, task_desc) ==
    DeprecateEach(rows, MatchExperienceRows(rows, task_desc, DeprecateTenths), 1)

ShouldRemove_AtThreshold(r, day) ==
    \/ IsDeprecated(r.content) /\ DaysSince(r.updated_at, day) >= MaxDeprecatedDays
    \/ ParseQuality(r.content) <= 1 /\ DaysSince(r.updated_at, day) >= MaxLowQualityDays
\* memory.py:408-410: should_remove
ShouldRemove(r, day) ==
    \/ IsDeprecated(r.content) /\ DaysSince(r.updated_at, day) > MaxDeprecatedDays
    \/ ParseQuality(r.content) <= 1 /\ DaysSince(r.updated_at, day) > MaxLowQualityDays

\* memory.py:400-419: the table after cleanup_stale; a row goes with its key
CleanupStaleOn(rows, day) ==
    LET keys == {rows[i].key : i \in {k \in 1..Len(rows) : ShouldRemove(rows[k], day)}}
    IN  SelectSeq(rows, LAMBDA r : r.key \notin keys)

\* memory.py:428-436: the category of a content, "general" when it names none
CategoryOf(content) ==
    IF FieldLines(content, "Category") = {} \/ ParseField(content, "Category") = <<>>
    THEN <<"general">>
    ELSE ParseField(content, "Category")

RECURSIVE FirstSeen(_, _)
\* the keys of a dict filled from seq, in insertion order
FirstSeen(seq, seen) ==
    IF Len(seq) = 0 THEN seen
    ELSE FirstSeen(Tail(seq),
                   IF \E i \in 1..Len(seen) : seen[i] = Head(seq) THEN seen
                   ELSE Append(seen, Head(seq)))

GetMergeCandidates_Pairs(rows, min_count) ==
    LET active == SelectSeq(rows, LAMBDA r : ~IsDeprecated(r.content))
        contents == [i \in 1..Len(active) |-> active[i].content]
        cats == FirstSeen([i \in 1..Len(contents) |-> CategoryOf(contents[i])], <<>>)
        groups == [g \in 1..Len(cats) |->
                     SelectSeq(contents, LAMBDA c : CategoryOf(c) = cats[g])]
    IN  IF Len(active) < min_count THEN <<>>
        ELSE SelectSeq(groups, LAMBDA entries : Len(entries) >= MergeGroupSize - 1)
\* memory.py:421-442: the contents of the active rows by category, for the
\* categories of at least three rows, once the table holds min_count active rows
GetMergeCandidates(rows, min_count) ==
    LET active == SelectSeq(rows, LAMBDA r : ~IsDeprecated(r.content))
        contents == [i \in 1..Len(active) |-> active[i].content]
        cats == FirstSeen([i \in 1..Len(contents) |-> CategoryOf(contents[i])], <<>>)
        groups == [g \in 1..Len(cats) |->
                     SelectSeq(contents, LAMBDA c : CategoryOf(c) = cats[g])]
    IN  IF Len(active) < min_count THEN <<>>
        ELSE SelectSeq(groups, LAMBDA entries : Len(entries) >= MergeGroupSize)

\* memory.py:447: content_to_key[entry]; of rows with one content the last one's key
ContentToKey(rows, entry) ==
    LET at == {i \in 1..Len(rows) : rows[i].content = entry}
    IN  IF at = {} THEN None ELSE Some(rows[CHOOSE i \in at : \A j \in at : j <= i].key)

\* memory.py:444-465: the table after replace_merged at timestamp ts
ReplaceMergedOn(rows, old_entries, merged_content, ts) ==
    LET keys == {ContentToKey(rows, old_entries[i]).v :
                    i \in {k \in 1..Len(old_entries) :
                              ContentToKey(rows, old_entries[k]).some}}
    IN  Append(SelectSeq(rows, LAMBDA r : r.key \notin keys),
               Row(<<"experience_merged", ts>>, merged_content, ts))

\* loop.py:926, 978: max(1, min(5, quality))
ClampQuality(q) ==
    IF q > MaxQuality THEN MaxQuality ELSE IF q < MinQuality THEN MinQuality ELSE q

\* loop.py:980: the content of a merged record
MergedContent(task, category, quality, lessons) ==
    Field("Task", task) \o Field("Outcome", Word("success")) \o Field("Category", category)
    \o Field("Quality", Word(Str(ClampQuality(quality)))) \o Field("Lessons", lessons)

\* ----------------------------------------------------------------- inputs

GitRebase == << <<"git", "rebase">> >>
DeployApp == << <<"Deploy", "a", "service">> >>
\* the task descriptions of a run
Tasks == {GitRebase, DeployApp}

\* lessons of two lines
SomeLessons == << <<"prefer", "small">>, <<"steps">> >>

\* the arguments of append_experience: in range or not, with and without keywords
Experiences ==
    { [task |-> GitRebase, outcome |-> Word("success"), lessons |-> SomeLessons,
       quality |-> 1, category |-> Word("coding"), keywords |-> <<>>,
       reasoning_trace |-> <<>>],
      [task |-> DeployApp, outcome |-> Word("failed"), lessons |-> SomeLessons,
       quality |-> 7, category |-> Word("general"), keywords |-> Word("deploy"),
       reasoning_trace |-> Word("ssh")] }

\* the clock readings: the day of the first call and a day past both cleanup
\* thresholds
Instants == {0, MaxLowQualityDays + 1}

\* what the summarization oracle answers to a merge request (quality as returned)
MergeResults ==
    { [task |-> GitRebase, quality |-> 2, category |-> Word("coding"),
       lessons |-> SomeLessons],
      [task |-> DeployApp, quality |-> 9, category |-> Word("general"),
       lessons |-> SomeLessons] }

RECURSIVE Seeded(_)
\* a table of n records written on day 0 before the run, each with a task of its
\* own ("git rebase 1", ...), three of them of one category
Seeded(n) ==
    IF n = 0 THEN <<>>
    ELSE AppendedTo(Seeded(n - 1),
                    [task |-> << GitRebase[1] \o <<Str(n)>> >>,
                     outcome |-> Word("success"), lessons |-> SomeLessons,
                     quality |-> DefaultQuality,
                     category |-> IF n <= MergeGroupSize THEN Word("coding")
                                  ELSE Word("general"),
                     keywords |-> <<>>, reasoning_trace |-> <<>>],
                    Timestamp(0, 0 - n))

\* ---------------------------------------------------------------- actions

\* a call and what it returned (<<>> for None)
Called(op, args, ret) == [op |-> op, args |-> args, ret |-> ret]

NoCall == Called("none", <<>>, <<>>)

\* memory.py:70-90: the vector table after _backfill_embeddings, one row for each
\* row of the table
Backfilled(rows) == [i \in 1..Len(rows) |-> rows[i].content]

\* memory.py:144-153: the vector table after _embed_and_store of an experience;
\* a content of blanks only is not stored
EmbedAndStore(vrows, enabled, content) ==
    IF enabled /\ Words(content) # {} THEN Append(vrows, content) ELSE vrows

\* memory.py:21-28: the table found at construction, empty or left by earlier
\* runs; no embedding is configured
InitExperience ==
    /\ NoTurn
    /\ InitProgress
    /\ InitSessions
    /\ InitRun
    /\ InitThreads
    /\ tbl \in {<<>>, Seeded(MergeMinCount)}
    /\ today = 0
    /\ stamps = 0
    /\ reuses = 0
    /\ embedding = FALSE
    /\ task_descs = Tasks
    /\ selected = <<>>
    /\ vec_tbl = <<>>
    /\ call = NoCall

\* memory.py:165-191
AppendExperience ==
    /\ stamps < MaxStamps
    /\ \E e \in Experiences :
        /\ tbl' = AppendedTo(tbl, e, Timestamp(today, stamps + 1))
        /\ vec_tbl' = EmbedAndStore(vec_tbl, embedding,
                          ExperienceContent(e.task, e.outcome, e.lessons, e.quality,
                                            e.category, e.keywords, e.reasoning_trace))
        /\ call' = Called("append_experience", <<e>>, <<>>)
    /\ stamps' = stamps + 1
    /\ UNCHANGED <<today, reuses, embedding, task_descs, selected>>
    /\ UNCHANGED notStoreVars

\* memory.py:371-398
RecordReuse ==
    /\ reuses < MaxReuses
    /\ \E task_desc \in task_descs, success \in BOOLEAN :
        /\ tbl' = RecordReuseOn(tbl, task_desc, success)
        /\ call' = Called("record_reuse", <<task_desc, success>>,
                          Len(MatchExperienceRows(tbl, task_desc, ReuseTenths)))
    /\ reuses' = IF tbl' = tbl THEN reuses ELSE reuses + 1
    /\ UNCHANGED <<today, stamps, embedding, task_descs, selected, vec_tbl>>
    /\ UNCHANGED notStoreVars

\* memory.py:341-352
DeprecateSimilar ==
    /\ \E task_desc \in task_descs :
        /\ tbl' = DeprecateSimilarOn(tbl, task_desc)
        /\ call' = Called("deprecate_similar", <<task_desc>>,
                          Len(MatchExperienceRows(tbl, task_desc, DeprecateTenths)))
    /\ UNCHANGED <<today, stamps, reuses, embedding, task_descs, selected, vec_tbl>>
    /\ UNCHANGED notStoreVars

\* memory.py:400-419
CleanupStale ==
    /\ tbl' = CleanupStaleOn(tbl, today)
    /\ call' = Called("cleanup_stale", <<>>,
                      Cardinality({i \in 1..Len(tbl) : ShouldRemove(tbl[i], today)}))
    /\ UNCHANGED <<today, stamps, reuses, embedding, task_descs, selected, vec_tbl>>
    /\ UNCHANGED notStoreVars

\* memory.py:444-465, called as in loop.py:952-981 on one of the first two groups
\* of get_merge_candidates with the record built from the oracle's answer
ReplaceMerged ==
    /\ stamps < MaxStamps
    /\ \E g \in 1..MergeGroups, result \in MergeResults :
        LET groups == GetMergeCandidates(tbl, MergeMinCount)
        IN  /\ g <= Len(groups)
            /\ LET entries == FirstN(groups[g], MergeBatch)
                   merged == MergedContent(result.task, result.category,
                                           result.quality, result.lessons)
               IN  /\ tbl' = ReplaceMergedOn(tbl, entries, merged,
                                             Timestamp(today, stamps + 1))
                   /\ vec_tbl' = EmbedAndStore(vec_tbl, embedding, merged)
                   /\ call' = Called("replace_merged", <<entries, merged>>, <<>>)
    /\ stamps' = stamps + 1
    /\ UNCHANGED <<today, reuses, embedding, task_descs, selected>>
    /\ UNCHANGED notStoreVars

\* datetime.now() moves on between two calls
AdvanceClock ==
    /\ \E day \in Instants : day > today /\ today' = day
    /\ UNCHANGED <<tbl, stamps, reuses, embedding, task_descs, selected, vec_tbl, call>>
    /\ UNCHANGED notStoreVars

NextStore ==
    \/ AppendExperience
    \/ RecordReuse
    \/ DeprecateSimilar
    \/ CleanupStale
    \/ ReplaceMerged
    \/ AdvanceClock

SpecStore == InitExperience /\ [][NextStore]_vars

\* ------------------------------------------------------- claims C9, C10

\* the contents of the table
Contents == {tbl[i].content : i \in 1..Len(tbl)}

\* C9: every experience record has a quality between 1 and 5 after any
\* sequence of append_experience calls (with any integer quality argument) and
\* record_reuse calls.
C9_QualityInRange ==
    \A c \in Contents : ParseQuality(c) >= 1 /\ ParseQuality(c) <= 5

\* C10: after any sequence of append_experience, record_reuse,
\* deprecate_similar, replace_merged and cleanup_stale calls every experience
\* record has 0 <= successes <= uses, a record without counter lines counting as
\* 0/0.
C10_SuccessesAtMostUses ==
    \A c \in Contents :
        /\ 0 <= ParseIntField(c, "Successes", 0)
        /\ ParseIntField(c, "Successes", 0) <= ParseIntField(c, "Uses", 0)

\* a merged record, written without counter lines, that has been reused with and
\* without success beside a record deprecated since
C10_Witness ==
    \E c, d \in Contents :
        /\ ~IsDeprecated(c)
        /\ c[Len(c) - 1] = <<"[Uses]", "2">>
        /\ c[Len(c)] = <<"[Successes]", "1">>
        /\ IsDeprecated(d)
        /\ ParseIntField(d, "Uses", 0) = 0

\* =================================================== search_experience

\* the largest limit a search is called with
MaxLimit == 4

\* memory.py:202: fetch = limit * 5
FetchFactor == 5

\* memory.py:237: exp(-0.02 * days_old) in ten-thousandths, for the ages of the
\* model: a record of today, a record without timestamp, a record of day 0 read
\* past the cleanup thresholds
Decay(days_old) ==
    CASE days_old = 0 -> 10000
      [] days_old = DefaultAgeDays -> 5488
      [] days_old = MaxLowQualityDays + 1 -> 1620

\* memory.py:234-239: quality * decay * conf of a candidate, as a fraction
Score(r, day) ==
    LET conf == Confidence(r.content)
    IN  [num |-> ParseQuality(r.content) * Decay(DaysSince(r.updated_at, day)) * conf[1],
         den |-> conf[2]]

\* a[0] > b[0] of two scores
ScoreAbove(a, b) == a.num * b.den > b.num * a.den

RECURSIVE SortedByScore(_)
\* memory.py:245-246: list.sort(key=score, reverse=True); equal scores keep their
\* order
SortedByScore(scored) ==
    IF Len(scored) = 0 THEN <<>>
    ELSE LET rest == SortedByScore(SubSeq(scored, 1, Len(scored) - 1))
             x == scored[Len(scored)]
             k == Cardinality({i \in 1..Len(rest) : ~ScoreAbove(x.score, rest[i].score)})
         IN  SubSeq(rest, 1, k) \o <<x>> \o SubSeq(rest, k + 1, Len(rest))

\* the order in which a vector search lists its rows: nearest first, as the
\* embedding decides
Orders == {"as stored", "reversed"}

Reverse(seq) == [i \in 1..Len(seq) |-> seq[Len(seq) + 1 - i]]

\* memory.py:203-210: the candidates of the vector table, which keeps a content
\* and no timestamp; none without embedding
VectorCandidates(vrows, enabled, fetch, order) ==
    LET listed == IF order = "reversed" THEN Reverse(vrows) ELSE vrows
        found == FirstN(listed, fetch)
    IN  IF enabled THEN [i \in 1..Len(found) |-> [content |-> found[i], updated_at |-> <<>>]]
        ELSE <<>>

\* memory.py:211-224: the rows that hold a keyword of the query, every row for a
\* query without keyword
KeywordCandidates(rows, query) ==
    LET keywords == Keywords(query)
        found == IF keywords = {} THEN rows
                 ELSE SelectSeq(rows, LAMBDA r : Hits(keywords, r.content) > 0)
    IN  [i \in 1..Len(found) |->
            [content |-> found[i].content, updated_at |-> found[i].updated_at]]

\* memory.py:229-244: the candidates that are not deprecated, with their scores
Scored(candidates, day) ==
    LET active == SelectSeq(candidates, LAMBDA r : ~IsDeprecated(r.content))
    IN  [i \in 1..Len(active) |->
            [score |-> Score(active[i], day), content |-> active[i].content]]

\* memory.py:241: outcome == "failed"
IsFailure(content) == ParseField(content, "Outcome") = <<"failed">>

\* 'text' within a sentence
Quoted(text) ==
    IF Len(text) = 0 THEN <<"''">>
    ELSE IF Len(text) = 1 THEN <<"'" \o text[1] \o "'">>
    ELSE <<"'" \o text[1]>> \o SubSeq(text, 2, Len(text) - 1) \o <<text[Len(text)] \o "'">>

\* memory.py:256: the content under the line that names the conflict
Conflicting(content, cat, prev_outcome, outcome) ==
    << <<"CONFLICTING", "experience", "(category">> \o Quoted(cat) \o <<"has", "both">>
       \o prev_outcome \o <<"and">> \o outcome \o <<"):">> >> \o content

\* memory.py:259: the content under the warning line
WarningLine == <<"WARNING", "from", "past", "failure:">>
Warning(content) == <<WarningLine>> \o content

\* seen_categories.get(cat)
SeenOutcome(seen, cat) ==
    IF \E i \in 1..Len(seen) : seen[i].cat = cat
    THEN Some(seen[CHOOSE i \in 1..Len(seen) : seen[i].cat = cat].outcome)
    ELSE None

\* memory.py:250: len(results) >= limit - 1 ends the loop
PositiveFull_AtLimit(results, limit) == Len(results) >= limit
PositiveFull(results, limit) == Len(results) >= limit - 1

SetDefault_Overwrite(seen, cat, outcome) ==
    Append(SelectSeq(seen, LAMBDA p : p.cat # cat), [cat |-> cat, outcome |-> outcome])
\* memory.py:257: seen_categories.setdefault(cat, outcome)
SetDefault(seen, cat, outcome) ==
    IF \E i \in 1..Len(seen) : seen[i].cat = cat THEN seen
    ELSE Append(seen, [cat |-> cat, outcome |-> outcome])

RECURSIVE TakePositive(_, _, _, _)
\* memory.py:249-257: the positive entries of the result, at most limit - 1
TakePositive(positive, limit, results, seen) ==
    IF Len(positive) = 0 \/ PositiveFull(results, limit) THEN results
    ELSE LET content == Head(positive).content
             category == ParseField(content, "Category")
             cat == IF category = <<>> THEN <<"general">> ELSE category
             outcome == ParseField(content, "Outcome")
             prev_outcome == SeenOutcome(seen, cat)
             entry == IF prev_outcome.some /\ prev_outcome.v # <<>>
                         /\ prev_outcome.v # outcome
                      THEN Conflicting(content, cat, prev_outcome.v, outcome)
                      ELSE content
         IN  TakePositive(Tail(positive), limit, Append(results, entry),
                          SetDefault(seen, cat, outcome))

WithWarning_Unsliced(results, warnings, limit) ==
    IF Len(warnings) > 0 THEN Append(results, Warning(warnings[1].content)) ELSE results
\* memory.py:258-260: the warning of the best failure goes last, then results[:limit]
WithWarning(results, warnings, limit) ==
    FirstN(IF Len(warnings) > 0 THEN Append(results, Warning(warnings[1].content))
           ELSE results,
           limit)

\* memory.py:200-228: the candidates of a search, from the vector table or, when
\* it lists none, from the keywords
Candidates(rows, vrows, enabled, query, limit, order) ==
    LET found == VectorCandidates(vrows, enabled, limit * FetchFactor, order)
    IN  IF Len(found) > 0 THEN found ELSE KeywordCandidates(rows, query)

\* memory.py:245: the failures among the scored candidates, best first
Warnings(scored) == SortedByScore(SelectSeq(scored, LAMBDA s : IsFailure(s.content)))

\* memory.py:246: the other scored candidates, best first
Positive(scored) == SortedByScore(SelectSeq(scored, LAMBDA s : ~IsFailure(s.content)))

\* memory.py:200-260: what search_experience returns
SearchExperienceOn(rows, vrows, enabled, query, limit, day, order) ==
    LET scored == Scored(Candidates(rows, vrows, enabled, query, limit, order), day)
    IN  WithWarning(TakePositive(Positive(scored), limit, <<>>, <<>>),
                    Warnings(scored), limit)

\* a query that holds no word of two letters
NoKeyword == << <<"a">> >>

\* the queries of the searches
Queries == Tasks \cup {NoKeyword}

\* a record written on day 0 before the run, the n-th of its table
Past(rows, task, outcome, quality, category) ==
    AppendedTo(rows,
               [task |-> task, outcome |-> Word(outcome), lessons |-> SomeLessons,
                quality |-> quality, category |-> Word(category),
                keywords |-> <<>>, reasoning_trace |-> <<>>],
               Timestamp(0, 0 - (Len(rows) + 1)))

GitStash == << <<"git", "stash">> >>
GitPush == << <<"git", "push">> >>

\* a table left by earlier runs: a success and a partial success of one
\* category, and two failures, the one of the higher quality reused twice in vain
SearchSeeds ==
    RecordReuseOn(
        RecordReuseOn(
            Past(Past(Past(Past(<<>>, GitRebase, "success", 3, "coding"),
                           GitStash, "failed", 5, "coding"),
                      DeployApp, "partial", 3, "coding"),
                 GitPush, "failed", 4, "general"),
            Word("stash"), FALSE),
        Word("stash"), FALSE)

\* memory.py:21-47: the tables found at construction, with or without embedding;
\* with it the vector table is filled from the table
InitSearch ==
    /\ NoTurn
    /\ InitProgress
    /\ InitSessions
    /\ InitRun
    /\ InitThreads
    /\ tbl \in {<<>>, SearchSeeds}
    /\ today = 0
    /\ stamps = 0
    /\ reuses = 0
    /\ embedding \in BOOLEAN
    /\ task_descs = Tasks
    /\ selected = <<>>
    /\ vec_tbl = IF embedding THEN Backfilled(tbl) ELSE <<>>
    /\ call = NoCall

\* memory.py:200-260
SearchExperience ==
    /\ \E query \in Queries, limit \in 0..MaxLimit, order \in Orders :
        call' = Called("search_experience", <<query, limit>>,
                       SearchExperienceOn(tbl, vec_tbl, embedding, query, limit,
                                          today, order))
    /\ UNCHANGED <<tbl, today, stamps, reuses, embedding, task_descs, selected, vec_tbl>>
    /\ UNCHANGED notStoreVars

NextSearch ==
    \/ SearchExperience
    \/ DeprecateSimilar
    \/ AdvanceClock

SpecSearch == InitSearch /\ [][NextSearch]_vars

\* ------------------------------------------------- claims C11, C12, C13

\* a search has just returned
Searched == call.op = "search_experience"

\* the entries of a result that carry a failed outcome
FailedEntries(result) == {k \in 1..Len(result) : IsFailure(result[k])}

\* C11: search_experience returns at most `limit` entries, of which at
\* most one is a warning (an entry of failed outcome), and a warning stands last.
C11_AtMostLimitOneWarningLast ==
    Searched =>
        /\ Len(call.ret) <= call.args[2]
        /\ Cardinality(FailedEntries(call.ret)) <= 1
        /\ \A k \in FailedEntries(call.ret) :
               k = Len(call.ret) /\ call.ret[k][1] = WarningLine

\* a search with limit 2 over two failures and two other records returns one of
\* the others and then one warning
C11_Witness ==
    /\ Searched
    /\ call.args[2] = 2
    /\ Len(call.ret) = 2
    /\ FailedEntries(call.ret) = {2}
    /\ Cardinality({i \in 1..Len(tbl) :
                      ~IsDeprecated(tbl[i].content) /\ IsFailure(tbl[i].content)}) = 2
    /\ Cardinality({i \in 1..Len(tbl) :
                      ~IsDeprecated(tbl[i].content) /\ ~IsFailure(tbl[i].content)}) = 2

\* the active failures among candidates, by index
ActiveFailures(candidates) ==
    {i \in 1..Len(candidates) :
        ~IsDeprecated(candidates[i].content) /\ IsFailure(candidates[i].content)}

\* the result ends with the warning of a best active failure of the candidates
\* and holds no other failure
EndsWithBestWarning(result, candidates, day) ==
    /\ Len(result) >= 1
    /\ FailedEntries(result) = {Len(result)}
    /\ \E i \in ActiveFailures(candidates) :
        /\ result[Len(result)] = <<WarningLine>> \o candidates[i].content
        /\ \A j \in ActiveFailures(candidates) :
               ~ScoreAbove(Score(candidates[j], day), Score(candidates[i], day))

\* C12: whenever the candidates of a search hold a non-deprecated record of
\* failed outcome and limit >= 1, the last entry of the result is the one warning
\* of the result: the failed record of the highest score under the warning line.
C12_BestFailureWarnedLast ==
    [][(call'.op = "search_experience" /\ UNCHANGED <<tbl, vec_tbl, embedding, today>>)
        => \E order \in Orders :
             LET candidates == Candidates(tbl, vec_tbl, embedding, call'.args[1],
                                          call'.args[2], order)
             IN  (ActiveFailures(candidates) # {} /\ call'.args[2] >= 1)
                     => EndsWithBestWarning(call'.ret, candidates, today)]_vars

\* a search with limit 1 answers with the warning of the failure of quality 4
\* alone, the failure of quality 5 having failed twice more
C12_Witness ==
    /\ Searched
    /\ call.args[2] = 1
    /\ Len(call.ret) = 1
    /\ call.ret[1][1] = WarningLine
    /\ ParseQuality(call.ret[1]) = 4
    /\ \E i \in 1..Len(tbl) :
        /\ ~IsDeprecated(tbl[i].content)
        /\ IsFailure(tbl[i].content)
        /\ ParseQuality(tbl[i].content) = 5
        /\ Hits(Keywords(call.args[1]), tbl[i].content) > 0
    /\ \E i \in 1..Len(tbl) :
        ~IsDeprecated(tbl[i].content) /\ ~IsFailure(tbl[i].content)
           /\ Hits(Keywords(call.args[1]), tbl[i].content) > 0

\* f"[Deprecated] {content}" without its marker
Undeprecated(content) == [content EXCEPT ![1] = Tail(@)]

\* the entry is the record of the deprecated row: its content with or without
\* the marker, bare or under a line of the search
ReturnsRow(entry, content) ==
    \/ entry \in {content, Undeprecated(content)}
    \/ Len(entry) > 1 /\ Tail(entry) \in {content, Undeprecated(content)}

\* C13: once deprecate_similar has marked a record deprecated, no later
\* search_experience returns it, by the vector path or by the keyword fallback.
C13_DeprecatedNeverReturned ==
    Searched =>
        \A i \in 1..Len(tbl) :
            (/\ IsDeprecated(tbl[i].content)
             /\ \A j \in 1..Len(tbl) : tbl[j].content # Undeprecated(tbl[i].content))
                => \A k \in 1..Len(call.ret) : ~ReturnsRow(call.ret[k], tbl[i].content)

\* ======================================= record_reuse, deprecate_similar

StashChanges == << <<"stash", "changes">> >>

\* a task of five keywords
GitAll == << <<"fetch", "rebase", "push", "stash", "changes">> >>

RECURSIVE Reused(_, _, _, _)
\* the table after n calls record_reuse(task_desc, success)
Reused(rows, task_desc, success, n) ==
    IF n = 0 THEN rows
    ELSE Reused(RecordReuseOn(rows, task_desc, success), task_desc, success, n - 1)

\* a table left by earlier runs: a deprecated record, a record reused twice with
\* success, one reused twice in vain, one reused four times with success, one
\* never reused
ReuseSeeds ==
    Reused(Reused(Reused(Past(Past(Past(Past(DeprecateSimilarOn(
                                                 Past(<<>>, StashChanges, "success", 3,
                                                      "coding"),
                                                 StashChanges),
                                             GitRebase, "success", 4, "coding"),
                                        StashChanges, "failed", 2, "coding"),
                                   GitPush, "success", 2, "general"),
                              DeployApp, "success", 3, "general"),
                         Word("rebase"), TRUE, 2),
                  Word("stash"), FALSE, 2),
           Word("push"), TRUE, 4)

\* memory.py:21-28: the table left by earlier runs; the turns bring tasks of two
\* and of five keywords and one without keyword
InitReuse ==
    /\ NoTurn
    /\ InitProgress
    /\ InitSessions
    /\ InitRun
    /\ InitThreads
    /\ tbl = ReuseSeeds
    /\ today = 0
    /\ stamps = 0
    /\ reuses = 0
    /\ embedding = FALSE
    /\ task_descs = Tasks \cup {GitAll, NoKeyword}
    /\ selected = <<>>
    /\ vec_tbl = <<>>
    /\ call = NoCall

NextReuse ==
    \/ RecordReuse
    \/ DeprecateSimilar

SpecReuse == InitReuse /\ [][NextReuse]_vars

\* ------------------------------------------------- claims C14, C15, C16

\* the keys of a table
KeysOf(rows) == {rows[i].key : i \in 1..Len(rows)}

\* the row of a key
RowOf(rows, key) == rows[CHOOSE i \in 1..Len(rows) : rows[i].key = key]

\* the record is active and holds at least `percent` per cent of the keywords of
\* the task (its lower-cased words of two letters or more)
Overlaps(r, task_desc, percent) ==
    /\ Keywords(task_desc) # {}
    /\ ~IsDeprecated(r.content)
    /\ 100 * Hits(Keywords(task_desc), r.content) >= percent * Cardinality(Keywords(task_desc))

\* the step keeps every row, by key and timestamp
SameRows ==
    /\ Len(tbl') = Len(tbl)
    /\ KeysOf(tbl') = KeysOf(tbl)
    /\ Cardinality(KeysOf(tbl)) = Len(tbl)
    /\ \A k \in KeysOf(tbl) : RowOf(tbl', k).updated_at = RowOf(tbl, k).updated_at

UsesOf(r) == ParseIntField(r.content, "Uses", 0)
SuccessesOf(r) == ParseIntField(r.content, "Successes", 0)

OneUp(q) == IF q + 1 > 5 THEN 5 ELSE q + 1
OneDown(q) == IF q - 1 < 1 THEN 1 ELSE q - 1

\* C15: record_reuse leaves the quality of a matched record as it is while
\* its updated uses are below 3; from 3 uses on the new quality is min(5, q + 1)
\* when successes / uses >= 0.8, max(1, q - 1) when it is < 0.4, and q otherwise.
C15_QualityFollowsConfidence ==
    [][call'.op = "record_reuse" =>
        \A k \in {x \in KeysOf(tbl) : Overlaps(RowOf(tbl, x), call'.args[1], 40)} :
            LET q == ParseQuality(RowOf(tbl, k).content)
                new_q == ParseQuality(RowOf(tbl', k).content)
                uses == UsesOf(RowOf(tbl', k))
                successes == SuccessesOf(RowOf(tbl', k))
            IN  new_q = IF uses < 3 THEN q
                        ELSE IF 10 * successes >= 8 * uses THEN OneUp(q)
                        ELSE IF 10 * successes < 4 * uses THEN OneDown(q)
                        ELSE q]_vars

\* the third use of a record, its third success, has raised its quality from 4
\* to 5; a record of five successes stands at the cap, one whose third use
\* failed like the two before has come down from 2 to 1, and a record used once
\* keeps its quality 3
C15_Witness ==
    /\ call.op = "record_reuse"
    /\ \E i, j, m, n \in 1..Len(tbl) :
        /\ UsesOf(tbl[i]) = 3 /\ SuccessesOf(tbl[i]) = 3
        /\ ParseQuality(tbl[i].content) = 5
        /\ ParseField(tbl[i].content, "Task") = GitRebase[1]
        /\ UsesOf(tbl[j]) = 5 /\ SuccessesOf(tbl[j]) = 5
        /\ ParseQuality(tbl[j].content) = 5
        /\ UsesOf(tbl[m]) = 3 /\ SuccessesOf(tbl[m]) = 0
        /\ ParseQuality(tbl[m].content) = 1
        /\ UsesOf(tbl[n]) = 0
        /\ ParseQuality(tbl[n].content) = 3

MaxMerges == 2

\* a table left by earlier runs: three records of one category, two of another
\* and a fourth of the first, deprecated
SixSeeds ==
    DeprecateSimilarOn(Past(Seeded(MergeMinCount), DeployApp, "success", 3, "coding"),
                       DeployApp)

\* a table left by earlier runs that holds one record twice: append_experience
\* was called twice with the same arguments
TwinSeeds ==
    Past(Past(Seeded(MergeGroupSize + 1), StashChanges, "success", 3, "coding"),
         StashChanges, "success", 3, "coding")

\* memory.py:21-28: the table left by earlier runs; no merge task runs, and the
\* turn beside the merge tasks has one reuse left to report (loop.py:945)
InitMerge ==
    /\ NoTurn
    /\ InitProgress
    /\ InitSessions
    /\ InitRun
    /\ InitThreads
    /\ tbl \in {Seeded(MergeGroupSize), SixSeeds, TwinSeeds}
    /\ today = 0
    /\ stamps = 0
    /\ reuses = MaxReuses - 1
    /\ embedding = FALSE
    /\ task_descs = {GitRebase}
    /\ selected = <<>>
    /\ vec_tbl = <<>>
    /\ call = NoCall

\* a merge task: the groups it has still to merge and, for reference, the table
\* they were taken from
MergeTask(groups, rows) == [groups |-> groups, rows |-> rows]

\* the tasks once task j is through with its first group
Advanced(tasks, j) ==
    IF Len(tasks[j].groups) > 1
    THEN [tasks EXCEPT ![j].groups = Tail(@)]
    ELSE SubSeq(tasks, 1, j - 1) \o SubSeq(tasks, j + 1, Len(tasks))

\* loop.py:949-955: a task starts with cleanup_stale and get_merge_candidates and
\* goes on with the first two groups, if there is one
GetCandidates ==
    /\ Len(selected) < MaxMerges
    /\ LET cleaned == CleanupStaleOn(tbl, today)
           groups == GetMergeCandidates(cleaned, MergeMinCount)
       IN  /\ tbl' = cleaned
           /\ selected' = IF Len(groups) = 0 THEN selected
                          ELSE Append(selected,
                                      MergeTask(FirstN(groups, MergeGroups), cleaned))
           /\ call' = Called("get_merge_candidates", <<>>, groups)
    /\ UNCHANGED <<today, stamps, reuses, embedding, task_descs, vec_tbl>>
    /\ UNCHANGED notStoreVars

\* loop.py:955-981: a task has the oracle's answer for its next group and calls
\* replace_merged (memory.py:444-465)
MergeGroup ==
    /\ stamps < MaxMerges
    /\ \E j \in 1..Len(selected), result \in MergeResults :
        LET entries == FirstN(Head(selected[j].groups), MergeBatch)
            merged == MergedContent(result.task, result.category, result.quality,
                                    result.lessons)
        IN  /\ tbl' = ReplaceMergedOn(tbl, entries, merged, Timestamp(today, stamps + 1))
            /\ vec_tbl' = EmbedAndStore(vec_tbl, embedding, merged)
            /\ selected' = Advanced(selected, j)
            /\ call' = Called("replace_merged", <<entries, merged>>, <<>>)
    /\ stamps' = stamps + 1
    /\ UNCHANGED <<today, reuses, embedding, task_descs>>
    /\ UNCHANGED notStoreVars

\* loop.py:971-976: the oracle gives no answer, or one without task or lessons,
\* and the task goes on with its next group
SkipGroup ==
    /\ \E j \in 1..Len(selected) : selected' = Advanced(selected, j)
    /\ UNCHANGED <<tbl, today, stamps, reuses, embedding, task_descs, vec_tbl, call>>
    /\ UNCHANGED notStoreVars

NextMerge ==
    \/ GetCandidates
    \/ MergeGroup
    \/ SkipGroup
    \/ RecordReuse

SpecMerge == InitMerge /\ [][NextMerge]_vars

\* ------------------------------------------------------ claims C17, C18

\* get_merge_candidates has just returned
Grouped == call.op = "get_merge_candidates"

\* the active rows, and those of a category, by index
ActiveRows == {i \in 1..Len(tbl) : ~IsDeprecated(tbl[i].content)}
ActiveOf(cat) == {i \in ActiveRows : CategoryOf(tbl[i].content) = cat}

\* the categories of the active rows
ActiveCategories == {CategoryOf(tbl[i].content) : i \in ActiveRows}

\* the group holds the contents of the active rows of the category, each as often
\* as the table does, and nothing else
HoldsCategory(group, cat) ==
    /\ Len(group) = Cardinality(ActiveOf(cat))
    /\ \A i \in ActiveOf(cat) :
        Cardinality({k \in 1..Len(group) : group[k] = tbl[i].content})
            = Cardinality({j \in ActiveOf(cat) : tbl[j].content = tbl[i].content})

\* one group for each category of three active rows or more, and no other group
GroupsOfThree(groups) ==
    /\ \A cat \in ActiveCategories :
        Cardinality({g \in 1..Len(groups) : HoldsCategory(groups[g], cat)})
            = IF Cardinality(ActiveOf(cat)) >= 3 THEN 1 ELSE 0
    /\ \A g \in 1..Len(groups) :
        \E cat \in ActiveCategories : HoldsCategory(groups[g], cat)

C18_OneNewNoneOfOld ==
    [][(call'.op = "replace_merged" /\ stamps' # stamps) =>
        \E j \in 1..Len(selected) :
            LET entries == FirstN(Head(selected[j].groups), MergeBatch)
                rows == selected[j].rows
                passed == {rows[i].key : i \in {k \in 1..Len(rows) :
                              /\ ~IsDeprecated(rows[k].content)
                              /\ \E e \in 1..Len(entries) : entries[e] = rows[k].content}}
                new == {i \in 1..Len(tbl') : tbl'[i].key \notin KeysOf(tbl)}
            IN  /\ selected' = Advanced(selected, j)
                /\ call'.args[1] = entries
                /\ Cardinality(new) = 1
                /\ \A i \in new : tbl'[i].content = call'.args[2]
                /\ KeysOf(tbl') \cap passed = {}]_vars

\* ========================================================= cleanup_stale

\* a record written before the run, `age` days before its day 0
Aged(rows, age, task, quality) ==
    AppendedTo(rows,
               [task |-> task, outcome |-> Word("success"), lessons |-> SomeLessons,
                quality |-> quality, category |-> Word("coding"),
                keywords |-> <<>>, reasoning_trace |-> <<>>],
               Timestamp(0 - age, 0 - (Len(rows) + 1)))

\* a table left by earlier runs: two deprecated records of 30 and 31 days, then
\* records of quality 1 of 89, 90 and 91 days, one of quality 0 and one of
\* quality 3 of 91 days
CleanupSeeds ==
    Aged(Aged(Aged(Aged(Aged(
        DeprecateSimilarOn(Aged(Aged(<<>>, MaxDeprecatedDays, StashChanges, 3),
                                MaxDeprecatedDays + 1, StashChanges, 3),
                           StashChanges),
        MaxLowQualityDays - 1, GitRebase, 1),
        MaxLowQualityDays, GitRebase, 1),
        MaxLowQualityDays + 1, GitRebase, 1),
        MaxLowQualityDays + 1, GitRebase, 0),
        MaxLowQualityDays + 1, GitRebase, 3)

\* memory.py:21-28: the table left by earlier runs
InitCleanup ==
    /\ NoTurn
    /\ InitProgress
    /\ InitSessions
    /\ InitRun
    /\ InitThreads
    /\ tbl = CleanupSeeds
    /\ today = 0
    /\ stamps = 0
    /\ reuses = 0
    /\ embedding = FALSE
    /\ task_descs = Tasks
    /\ selected = <<>>
    /\ vec_tbl = <<>>
    /\ call = NoCall

NextCleanup ==
    \/ CleanupStale
    \/ AdvanceClock
    \/ DeprecateSimilar
    \/ RecordReuse

SpecCleanup == InitCleanup /\ [][NextCleanup]_vars

\* ----------------------------------------------------------- claim C19

\* the age of a row in days
AgeOf(r) == today - r.updated_at[1]

\* what the default thresholds condemn
Stale(r) ==
    \/ IsDeprecated(r.content) /\ AgeOf(r) > 30
    \/ ParseQuality(r.content) <= 1 /\ AgeOf(r) > 90

ConflictSeeds ==
    Past(Past(Past(Past(<<>>, GitRebase, "success", 5, "coding"),
                   GitStash, "partial", 4, "coding"),
              GitPush, "success", 3, "coding"),
         DeployApp, "failed", 3, "general")

\* memory.py:21-47: the table found at construction, without embedding
InitConflict ==
    /\ NoTurn
    /\ InitProgress
    /\ InitSessions
    /\ InitRun
    /\ InitThreads
    /\ tbl = ConflictSeeds
    /\ today = 0
    /\ stamps = 0
    /\ reuses = 0
    /\ embedding = FALSE
    /\ task_descs = Tasks \cup {GitStash}
    /\ selected = <<>>
    /\ vec_tbl = <<>>
    /\ call = NoCall

SpecConflict == InitConflict /\ [][NextSearch]_vars

\* ----------------------------------------------------------- claim C27

\* the positive candidates of the search that has returned, best first
Ranked == Positive(Scored(KeywordCandidates(tbl, call.args[1]), today))

\* how many of them the result holds
Slots ==
    IF call.args[2] < 1 THEN 0
    ELSE IF Len(Ranked) < call.args[2] - 1 THEN Len(Ranked) ELSE call.args[2] - 1

\* the entry carries the line that names a conflict
Marked(entry) == entry[1][1] = "CONFLICTING"

\* the entry is the content, bare or under a line that names a conflict
Carries(entry, content) ==
    IF Marked(entry) THEN Tail(entry) = content ELSE entry = content

\* the category under which seen_categories holds a content
SeenAs(content) ==
    IF ParseField(content, "Category") = <<>> THEN <<"general">>
    ELSE ParseField(content, "Category")

\* the selected entries before the i-th that are of its category
Earlier(i) == {j \in 1..(i - 1) : SeenAs(Ranked[j].content) = SeenAs(Ranked[i].content)}

\* the outcome of the i-th selected entry
OutcomeAt(i) == ParseField(Ranked[i].content, "Outcome")

\* C27 as stated: no positive candidate is dropped for a conflict, and a
\* selected entry carries the conflict marker if and only if its outcome differs
\* from the outcome of the entry of its category that was selected last before it.
C27_MarkedAgainstLastSeen ==
    Searched =>
        /\ Len(call.ret) >= Slots
        /\ \A i \in 1..Slots :
            /\ Carries(call.ret[i], Ranked[i].content)
            /\ Marked(call.ret[i]) <=>
                   /\ Earlier(i) # {}
                   /\ \A j \in Earlier(i) :
                        (\A k \in Earlier(i) : k <= j) => OutcomeAt(j) # OutcomeAt(i)

\* C27: no positive candidate is dropped for a conflict, and a selected entry
\* carries the conflict marker if and only if its outcome differs from the
\* outcome, not empty, of the first selected entry of its category.
C27_MarkedAgainstFirstSeen ==
    Searched =>
        /\ Len(call.ret) >= Slots
        /\ \A i \in 1..Slots :
            /\ Carries(call.ret[i], Ranked[i].content)
            /\ Marked(call.ret[i]) <=>
                   /\ Earlier(i) # {}
                   /\ \A j \in Earlier(i) :
                        (\A k \in Earlier(i) : j <= k) =>
                            OutcomeAt(j) # <<>> /\ OutcomeAt(j) # OutcomeAt(i)

\* a search has selected a success, a partial success and a success of one
\* category: the second carries the marker, the third does not
C27_Witness ==
    /\ Searched
    /\ Slots = 3
    /\ OutcomeAt(1) = <<"success">> /\ ~Marked(call.ret[1])
    /\ OutcomeAt(2) = <<"partial">> /\ Marked(call.ret[2])
    /\ OutcomeAt(3) = <<"success">> /\ ~Marked(call.ret[3])
    /\ Earlier(3) = {1, 2}

\* ----------------------------------------------------------- claim C26

\* C26: every record that a merge cycle inserts has outcome success and
\* quality 5, whatever the summarization oracle has returned, and the batch it was
\* made from holds at most 6 records, all of one category.
C26_MergedSuccessQualityFive ==
    [][(call'.op = "replace_merged" /\ stamps' # stamps) =>
        /\ \A i \in 1..Len(tbl') :
            tbl'[i].key \notin KeysOf(tbl) =>
                /\ ParseField(tbl'[i].content, "Outcome") = <<"success">>
                /\ ParseQuality(tbl'[i].content) = 5
        /\ Len(call'.args[1]) <= 6
        /\ \A e, f \in 1..Len(call'.args[1]) :
            CategoryOf(call'.args[1][e]) = CategoryOf(call'.args[1][f])]_vars


\* ------------------------------------------------- memory consolidation

\* self.memory_window as configured (loop.py:42, 66)
MemoryWindow == 4

\* the turns of a session that are followed: none starts at this many messages
MaxMessages == 8

\* the consolidation tasks followed at a time
MaxTasks == 2

\* the memory updates of consolidations that are followed
MaxUpdates == 2

\* loop.py:654
KeepCount == MemoryWindow \div 2

\* the session of a task before _consolidate_memory has read it
NotRead == [from |-> 0, upto |-> 0, current_memory |-> <<>>, writes |-> 0]

\* loop.py:446-453: _consolidate_and_unlock, on the session the turn holds
UnlockTask(k) ==
    [key |-> k, archive_all |-> FALSE, unlock |-> TRUE, session |-> "cached",
     messages |-> 0, cursor |-> 0, awaiting |-> FALSE, read |-> NotRead]

\* loop.py:419-424: _consolidate_and_cleanup, on a temporary session that holds
\* the messages copied before the reset
CleanupTask(k, copied) ==
    [key |-> k, archive_all |-> TRUE, unlock |-> FALSE, session |-> "temp",
     messages |-> copied, cursor |-> 0, awaiting |-> FALSE, read |-> NotRead]

\* session/manager.py:61-64 and 216-217, Session.clear and invalidate: the
\* running tasks of the key keep the session object they were given, which is
\* emptied and no longer the one get_or_create returns
Invalidated(tasks, k) ==
    [j \in DOMAIN tasks |->
        IF tasks[j].key = k /\ tasks[j].session = "cached"
        THEN [tasks[j] EXCEPT !.session = "dropped", !.messages = 0, !.cursor = 0]
        ELSE tasks[j]]

\* the sequence without its j-th element
Without(tasks, j) == SubSeq(tasks, 1, j - 1) \o SubSeq(tasks, j + 1, Len(tasks))

\* len(session.messages) of the session object a task holds
MessagesOf(task) ==
    IF task.session = "cached" THEN session_messages[task.key] ELSE task.messages

\* session.last_consolidated of the session object a task holds
CursorOf(task) ==
    IF task.session = "cached" THEN last_consolidated[task.key] ELSE task.cursor

\* loop.py:653-681: nothing to consolidate
NothingToConsolidate(task) ==
    /\ ~task.archive_all
    /\ \/ MessagesOf(task) <= KeepCount
       \/ MessagesOf(task) - CursorOf(task) <= 0
       \/ MessagesOf(task) - KeepCount <= CursorOf(task)

\* loop.py:646-648, 675: old_messages, as the indices it runs from and up to in
\* the list of the session (session.messages[from:upto])
OldMessages(task) ==
    IF task.archive_all THEN <<0, MessagesOf(task)>>
    ELSE <<CursorOf(task), MessagesOf(task) - KeepCount>>

\* memory.py:109-114: read_long_term, the content of the first long-term row
ReadLongTerm(lt) == IF lt = <<>> THEN <<>> ELSE lt[1]

\* memory.py:116-128: write_long_term on the thread of the event loop, the rows
\* of key "long_term" deleted and one row added
WriteLongTerm(lt, content) == <<content>>

\* loop.py:675-693: what _consolidate_memory has read when it calls the provider
ReadBy(task) ==
    [from |-> OldMessages(task)[1], upto |-> OldMessages(task)[2],
     current_memory |-> ReadLongTerm(long_term), writes |-> Len(written)]

\* the fact the conversation of a session adds to long-term memory
Fact(k) == <<"uses", k>>

\* loop.py:695-707: the memory_update the prompt asks for, the memory the task
\* read with the new facts of its conversation added, or unchanged when there
\* is nothing new
MemoryUpdate(read, k) ==
    IF \/ read.upto <= read.from
       \/ \E i \in 1..Len(read.current_memory) : read.current_memory[i] = Fact(k)
    THEN read.current_memory
    ELSE Append(read.current_memory, Fact(k))

\* the provider's answers to a consolidation: an exception or a text that is no
\* JSON object, an object without memory_update, an object with it
Answers == {"raises", "object", "update"}

\* loop.py:746-749: the cursor after a consolidation
CursorAfter(task) ==
    IF task.archive_all THEN 0 ELSE MessagesOf(task) - KeepCount

\* the session object a finished task held, when "/new" had emptied it and
\* dropped it from the cache
Detached(task, cursor) ==
    [key |-> task.key, messages |-> MessagesOf(task), last_consolidated |-> cursor]

Unlocked_LeftLocked(task) == consolidating

\* loop.py:448-451: self._consolidating once a task has ended, whichever way
\* _consolidate_memory was left; the task of "/new" leaves the set alone
Unlocked(task) ==
    IF task.unlock THEN consolidating \ {task.key} ELSE consolidating

\* loop.py:444
Overflows(k) == session_messages[k] > MemoryWindow /\ k \notin consolidating

\* loop.py:396-455, an ordinary message of session k up to the first await of
\* its turn: a session over the window starts a consolidation unless its key is
\* in self._consolidating
ProcessMessage ==
    \E k \in Keys :
        /\ turn = NoKey
        /\ session_messages[k] < MaxMessages
        /\ Len(consolidations) < MaxTasks
        /\ IF Overflows(k)
           THEN /\ consolidating' = consolidating \cup {k}
                /\ consolidations' = Append(consolidations, UnlockTask(k))
           ELSE UNCHANGED <<consolidating, consolidations>>
        /\ turn' = k
        /\ UNCHANGED <<session_messages, last_consolidated, detached>>
        /\ UNCHANGED notSessionVars

\* loop.py:517-521: the turn ends by adding the user and the assistant message
\* to its session (the agent loop the turn runs in between is Spec's)
FinishTurn ==
    /\ turn # NoKey
    /\ session_messages' = [session_messages EXCEPT ![turn] = @ + 2]
    /\ turn' = NoKey
    /\ UNCHANGED <<last_consolidated, consolidating, consolidations, detached>>
    /\ UNCHANGED notSessionVars

\* loop.py:413-430, the message "/new" of session k: the session is cleared,
\* saved and dropped from the cache, and a task archives the copied messages
NewSession ==
    \E k \in Keys :
        /\ turn = NoKey
        /\ Len(consolidations) < MaxTasks
        /\ session_messages' = [session_messages EXCEPT ![k] = 0]
        /\ last_consolidated' = [last_consolidated EXCEPT ![k] = 0]
        /\ consolidations' =
               Append(Invalidated(consolidations, k), CleanupTask(k, session_messages[k]))
        /\ UNCHANGED <<consolidating, turn, detached>>
        /\ UNCHANGED notSessionVars

\* loop.py:643-720, the j-th task from its start to the provider call it awaits;
\* it returns at once when there is nothing to consolidate, and
\* _consolidate_and_unlock then discards its key (loop.py:450-451)
StartAt(j) ==
    /\ j \in DOMAIN consolidations
    /\ LET task == consolidations[j] IN
        /\ ~task.awaiting
        /\ IF NothingToConsolidate(task)
           THEN /\ consolidations' = Without(consolidations, j)
                /\ consolidating' = Unlocked(task)
                /\ detached' = IF task.session = "dropped"
                               THEN Detached(task, CursorOf(task))
                               ELSE detached
           ELSE /\ consolidations' =
                       [consolidations EXCEPT ![j].awaiting = TRUE, ![j].read = ReadBy(task)]
                /\ UNCHANGED <<consolidating, detached>>
    /\ UNCHANGED <<session_messages, last_consolidated, turn>>
    /\ UNCHANGED notSessionVars

StartConsolidation == \E j \in 1..MaxTasks : StartAt(j)

\* loop.py:720-756, the j-th task from the provider's answer to its end. An
\* answer that is a JSON object writes its memory_update unless that is the
\* memory the task read (loop.py:740-744; the history entry of loop.py:736-739
\* is followed in SpecWorkers) and moves the cursor of the session object the
\* task holds; any other answer or an exception leaves both. In either case
\* _consolidate_and_unlock discards the key.
FinishAt(j) ==
    /\ j \in DOMAIN consolidations
    /\ \E answer \in Answers :
        LET task == consolidations[j]
            update == MemoryUpdate(task.read, task.key)
            writes == answer = "update" /\ update # task.read.current_memory
            cursor == IF answer = "raises" THEN CursorOf(task) ELSE CursorAfter(task)
        IN
        /\ task.awaiting
        /\ writes => Len(written) < MaxUpdates
        /\ long_term' = IF writes THEN WriteLongTerm(long_term, update) ELSE long_term
        /\ written' = IF writes THEN Append(written, update) ELSE written
        /\ last_consolidated' =
               IF task.session = "cached"
               THEN [last_consolidated EXCEPT ![task.key] = cursor]
               ELSE last_consolidated
        /\ detached' = IF task.session = "dropped" THEN Detached(task, cursor) ELSE detached
        /\ consolidations' = Without(consolidations, j)
        /\ consolidating' = Unlocked(task)
    /\ UNCHANGED <<session_messages, turn>>
    /\ UNCHANGED <<loopVars, progressVars, storeVars, runVars, threads, history>>

FinishConsolidation == \E j \in 1..MaxTasks : FinishAt(j)

InitConsolidate == NoTurn /\ InitProgress /\ InitStore /\ InitSessions /\ InitThreads /\ InitRun

NextConsolidate ==
    \/ ProcessMessage
    \/ FinishTurn
    \/ NewSession
    \/ StartConsolidation
    \/ FinishConsolidation

SpecConsolidate == InitConsolidate /\ [][NextConsolidate]_vars

\* ----------------------------------------------------------- claim C20

\* the running consolidation tasks of a session key
InFlight(k) == {j \in DOMAIN consolidations : consolidations[j].key = k}

\* C20: a session key has at most one in-flight consolidation task at any
\* time, whichever way a turn started it (window overflow or the /new reset).
C20_AtMostOneInFlight ==
    \A k \in Keys : Cardinality(InFlight(k)) <= 1

\* ----------------------------------------------------------- claim C33

\* the tasks of _consolidate_and_unlock among `tasks` that run for session key k
UnlockTasksIn(tasks, k) == {j \in DOMAIN tasks : tasks[j].key = k /\ tasks[j].unlock}

\* C33: the consolidation guard is always released. After every step a session
\* key is in self._consolidating exactly while a window consolidation task of
\* the key runs, so the key is removed whenever such a task finishes (with a
\* result, by an early return or by an exception); and a turn that begins on a
\* session over the window while no such task runs starts a new one.
C33_GuardReleasedThenRetried ==
    [][/\ \A k \in Keys :
            k \in consolidating' <=> UnlockTasksIn(consolidations', k) # {}
       /\ \A k \in Keys :
            (/\ turn = NoKey
             /\ turn' = k
             /\ session_messages[k] > MemoryWindow
             /\ UnlockTasksIn(consolidations, k) = {})
            => UnlockTasksIn(consolidations', k) # {}]_vars

\* a window consolidation of a key has finished on a session that "/new" had
\* dropped, and a later turn of the key has started another one
C33_Witness ==
    \E k \in Keys :
        /\ detached.key = k
        /\ k \in consolidating
        /\ \E j \in UnlockTasksIn(consolidations, k) : consolidations[j].session = "cached"

\* ----------------------------------------------------------- claim C34

\* C34: every session message at an index below last_consolidated was in the
\* old_messages of some consolidation: a step that moves the cursor of a cached
\* session forward is the end of a consolidation of that session whose
\* old_messages began at or below the old cursor and reached the new one, so
\* the messages that turns appended while it awaited the provider stay above
\* the cursor.
C34_CursorWithinOldMessages ==
    [][\A k \in Keys :
          last_consolidated'[k] > last_consolidated[k]
          => \E j \in DOMAIN consolidations :
                 /\ consolidations[j].key = k
                 /\ consolidations[j].session = "cached"
                 /\ consolidations[j].awaiting
                 /\ consolidations' = Without(consolidations, j)
                 /\ consolidations[j].read.from <= last_consolidated[k]
                 /\ last_consolidated'[k] <= consolidations[j].read.upto]_vars

\* ----------------------------------------------------------- claim C35

\* the cursor of a session object lies within its message list
InRange(cursor, length) == 0 <= cursor /\ cursor <= length

\* C35: in every reachable state every session object has
\* 0 <= last_consolidated <= len(messages): the cached sessions, the sessions
\* the running consolidations were given, and the session a consolidation has
\* just finished on, also when "/new" cleared the session while a consolidation
\* of its key ran and when turns added messages before a consolidation ended.
C35_CursorInRange ==
    /\ \A k \in Keys : InRange(last_consolidated[k], session_messages[k])
    /\ \A j \in DOMAIN consolidations :
           InRange(CursorOf(consolidations[j]), MessagesOf(consolidations[j]))
    /\ InRange(detached.last_consolidated, detached.messages)

\* ----------------------------------------------------------- claim C36

\* C36: long-term memory updates are not lost between overlapping
\* consolidations: a consolidation that writes long-term memory has read it
\* after the last write of any other consolidation, so its text is derived from
\* the memory it replaces.
C36_WritesWhatItRead ==
    [][Len(written') > Len(written)
       => \E j \in DOMAIN consolidations :
              /\ consolidations[j].awaiting
              /\ consolidations' = Without(consolidations, j)
              /\ consolidations[j].read.writes = Len(written)]_vars


\* ========================================================= search_memory

RECURSIVE SortedByHits(_, _)
\* memory.py:476-485: sorted(..., key=hits, reverse=True), which keeps the order
\* of equal hits
SortedByHits(contents, keywords) ==
    IF contents = <<>> THEN <<>>
    ELSE LET rest == SortedByHits(Tail(contents), keywords)
             h == Hits(keywords, Head(contents))
             before == SelectSeq(rest, LAMBDA c : Hits(keywords, c) > h)
             after == SelectSeq(rest, LAMBDA c : Hits(keywords, c) <= h)
         IN  before \o <<Head(contents)>> \o after

\* memory.py:467-490: _fallback_text_search over the contents the table answers
\* with, in its order
FallbackTextSearch(contents, query, limit) ==
    LET keywords == Keywords(query)
    IN  IF contents = <<>> THEN <<>>
        ELSE IF keywords = {}
        THEN SelectSeq(FirstN(contents, limit), LAMBDA c : c # <<>>)
        ELSE FirstN(SortedByHits(SelectSeq(contents,
                                           LAMBDA c : Hits(keywords, c) > 0),
                                 keywords),
                    limit)

\* ============================================= the store's backend calls

\* the operations a thread is followed through
MaxCalls == 2

\* the threads asyncio.to_thread runs store operations in (loop.py:943-981), and
\* the thread of the event loop, which calls the store directly (loop.py:736-741,
\* 930)
Workers == {"worker-1", "worker-2"}
LoopThread == "loop"

\* a thread that has not called the store
Idle ==
    [op |-> "none", args |-> <<>>, pc |-> "idle", todo |-> <<>>, ret |-> <<>>,
     calls |-> 0]

\* a call on the table: self._tbl.delete, self._tbl.add
BackendCall(kind, key, content, updated_at) ==
    [call |-> kind, key |-> key, content |-> content, updated_at |-> updated_at]

\* self._tbl.delete(f"key = '{key}'")
DeleteKey(key) == BackendCall("delete", key, <<>>, <<>>)

\* self._tbl.add of a row of type "experience" under a known key
AddRow(key, content, updated_at) == BackendCall("add", key, content, updated_at)

\* self._tbl.add of a row that takes its key and updated_at from datetime.now()
\* (memory.py:175, 185, 451, 455)
AddNow(prefix, content) == BackendCall("add now", prefix, content, <<>>)

\* memory.py:117
DeleteLongTerm == BackendCall("delete long_term", "long_term", <<>>, <<>>)

\* memory.py:118-127
AddLongTerm(content) == BackendCall("add long_term", "long_term", content, <<>>)

\* memory.py:132-141
AddHistory(entry) == BackendCall("add history", "history", entry, <<>>)

\* memory.py:312-324, _update_experience_row for each of the matched rows in
\* turn: delete by key, then add the new content under the key
UpdateCalls(matches, new_contents) ==
    [k \in 1..(2 * Len(matches)) |->
        LET r == matches[(k + 1) \div 2]
        IN  IF k % 2 = 1 THEN DeleteKey(r.key)
            ELSE AddRow(r.key, new_contents[(k + 1) \div 2], r.updated_at)]

\* memory.py:371-398: what record_reuse does after it has read the rows
RecordReusePlan(rows, task_desc, success) ==
    LET matches == MatchExperienceRows(rows, task_desc, ReuseTenths)
    IN  [todo |-> UpdateCalls(matches, [i \in 1..Len(matches) |->
                                           ReusedContent(matches[i].content, success)]),
         ret |-> Len(matches)]

\* memory.py:341-352: what deprecate_similar does after it has read the rows
DeprecateSimilarPlan(rows, task_desc) ==
    LET matches == MatchExperienceRows(rows, task_desc, DeprecateTenths)
    IN  [todo |-> UpdateCalls(matches, [i \in 1..Len(matches) |->
                                           Deprecated(matches[i].content)]),
         ret |-> Len(matches)]

\* memory.py:400-419: what cleanup_stale does after it has read the rows
CleanupStalePlan(rows, day) ==
    LET stale == SelectSeq(rows, LAMBDA r : ShouldRemove(r, day))
    IN  [todo |-> [k \in 1..Len(stale) |-> DeleteKey(stale[k].key)],
         ret |-> Len(stale)]

\* memory.py:444-465: what replace_merged does after it has read the rows
ReplaceMergedPlan(rows, old_entries, merged_content) ==
    LET found == SelectSeq(old_entries, LAMBDA e : ContentToKey(rows, e).some)
    IN  [todo |-> [k \in 1..Len(found) |-> DeleteKey(ContentToKey(rows, found[k]).v)]
                  \o <<AddNow("experience_merged", merged_content)>>,
         ret |-> <<>>]

\* an operation that only reads returns what it found
Found(ret) == [todo |-> <<>>, ret |-> ret]

\* the ways the table's rows of different types can follow one another in a scan
Scans == {"memory first", "experience first"}

\* the contents self._tbl.search().where("type != '_init_'") answers with
Scanned(rows, lt, hist, scan) ==
    LET contents == [i \in 1..Len(rows) |-> rows[i].content]
    IN  IF scan = "memory first" THEN lt \o hist \o contents ELSE contents \o hist \o lt

\* what an operation does once its search of the table has answered: with `rows`
\* for the experience records, `lt` and `hist` for long-term memory and history
Planned(op, args, rows, lt, hist, day, scan) ==
    CASE op = "record_reuse" -> RecordReusePlan(rows, args[1], args[2])
      [] op = "deprecate_similar" -> DeprecateSimilarPlan(rows, args[1])
      [] op = "cleanup_stale" -> CleanupStalePlan(rows, day)
      [] op = "replace_merged" -> ReplaceMergedPlan(rows, args[1], args[2])
      [] op = "get_merge_candidates" -> Found(GetMergeCandidates(rows, MergeMinCount))
      [] op = "read_long_term" -> Found(IF lt = <<>> THEN <<>> ELSE lt[1])
      [] op = "search_experience" ->
            Found(SearchExperienceOn(rows, <<>>, FALSE, args[1], args[2], day, "as stored"))
      [] op = "search_memory" ->
            Found(FallbackTextSearch(Scanned(rows, lt, hist, scan), args[1], args[2]))

\* the table after a backend call at timestamp ts
TableAfter(rows, c, ts) ==
    CASE c.call = "delete" -> Delete(rows, c.key)
      [] c.call = "add" -> Append(rows, Row(c.key, c.content, c.updated_at))
      [] c.call = "add now" -> Append(rows, Row(<<c.key, ts>>, c.content, ts))
      [] OTHER -> rows

\* the long-term rows after a backend call
LongTermAfter(rows, c) ==
    CASE c.call = "delete long_term" -> <<>>
      [] c.call = "add long_term" -> Append(rows, c.content)
      [] OTHER -> rows

\* the history rows after a backend call
HistoryAfter(rows, c) ==
    IF c.call = "add history" THEN Append(rows, c.content) ELSE rows

\* a thread starts an operation that begins by reading the table
Started(t, op, args) ==
    [op |-> op, args |-> args, pc |-> "search", todo |-> <<>>, ret |-> <<>>,
     calls |-> threads[t].calls + 1]

\* a thread may call the store: it runs nothing and is followed further
Free(t) ==
    /\ threads[t].pc \in {"idle", "returned"}
    /\ threads[t].calls < MaxCalls

\* the search that opens an operation answers: self._tbl.search()...to_list()
\* (memory.py:327, 402, 446); an operation with nothing to write returns
Search ==
    \E t \in DOMAIN threads, scan \in Scans :
        /\ threads[t].pc = "search"
        /\ LET plan == Planned(threads[t].op, threads[t].args, tbl, long_term, history,
                               today, scan)
           IN  threads' = [threads EXCEPT
                              ![t].todo = plan.todo,
                              ![t].ret = plan.ret,
                              ![t].pc = IF plan.todo = <<>> THEN "returned" ELSE "write"]
        /\ UNCHANGED <<tbl, stamps, long_term, history, written>>
        /\ UNCHANGED notTableVars

\* the next delete or add of an operation; after the last one it returns
Write ==
    \E t \in DOMAIN threads :
        /\ threads[t].pc = "write"
        /\ LET c == Head(threads[t].todo)
           IN  /\ tbl' = TableAfter(tbl, c, Timestamp(today, stamps + 1))
               /\ stamps' = IF c.call = "add now" THEN stamps + 1 ELSE stamps
               /\ long_term' = LongTermAfter(long_term, c)
               /\ history' = HistoryAfter(history, c)
        /\ written' = IF threads[t].op = "write_long_term" /\ Len(threads[t].todo) = 1
                      THEN Append(written, threads[t].args[1])
                      ELSE written
        /\ threads' = [threads EXCEPT
                          ![t].todo = Tail(@),
                          ![t].pc = IF Len(threads[t].todo) = 1 THEN "returned" ELSE "write"]
        /\ UNCHANGED notTableVars

RECURSIVE RStripText(_)
\* str.rstrip() of a text of lines of words: its trailing empty lines go
RStripText(text) ==
    IF text # <<>> /\ text[Len(text)] = <<>>
    THEN RStripText(SubSeq(text, 1, Len(text) - 1))
    ELSE text

\* the operations that begin by writing; the others begin by reading the table
WritesFirst == {"write_long_term", "append_history", "append_experience"}

Direct_NoDelete(op, args) ==
    CASE op = "write_long_term" -> <<AddLongTerm(args[1])>>
      [] op = "append_history" -> <<AddHistory(RStripText(args[1]))>>
      [] op = "append_experience" ->
            <<AddNow("experience",
                     ExperienceContent(args[1].task, args[1].outcome, args[1].lessons,
                                       args[1].quality, args[1].category,
                                       args[1].keywords, args[1].reasoning_trace))>>
\* what an operation that begins by writing has to do (without embedding
\* _embed_and_store returns at once, memory.py:144-145)
Direct(op, args) ==
    CASE op = "write_long_term" -> <<DeleteLongTerm, AddLongTerm(args[1])>>
      [] op = "append_history" -> <<AddHistory(RStripText(args[1]))>>
      [] op = "append_experience" ->
            <<AddNow("experience",
                     ExperienceContent(args[1].task, args[1].outcome, args[1].lessons,
                                       args[1].quality, args[1].category,
                                       args[1].keywords, args[1].reasoning_trace))>>

\* a thread starts an operation that begins by writing
StartedWriting(t, op, args) ==
    [op |-> op, args |-> args, pc |-> "write", todo |-> Direct(op, args), ret |-> <<>>,
     calls |-> threads[t].calls + 1]

\* the threads inside an operation
Inside == {t \in DOMAIN threads : threads[t].pc \in {"search", "write"}}

\* the process shuts down: what its threads were doing is abandoned where it
\* stands, and nothing is started any more
Abandon ==
    /\ Inside # {}
    /\ threads' = [t \in DOMAIN threads |->
                      [threads[t] EXCEPT !.pc = IF t \in Inside THEN "abandoned"
                                                ELSE "stopped"]]
    /\ UNCHANGED <<tbl, stamps, long_term, history, written>>
    /\ UNCHANGED notTableVars

\* the operations that catch what the backend raises (try ... except Exception)
Catching ==
    {"read_long_term", "search_memory", "search_experience", "record_reuse",
     "deprecate_similar", "get_merge_candidates", "replace_merged", "cleanup_stale"}

\* what a catching operation returns from its except branch: 0 for a count, and
\* <<>> for "", [] and None
ZeroOf(op) ==
    IF op \in {"record_reuse", "deprecate_similar", "cleanup_stale"} THEN 0 ELSE <<>>

\* the backend call a thread is about to make raises: the operation returns
\* from its except branch if it has one, else the exception leaves it
Fail ==
    \E t \in Inside :
        /\ threads' = [threads EXCEPT
                          ![t].pc = IF threads[t].op \in Catching THEN "returned"
                                    ELSE "raised",
                          ![t].ret = IF threads[t].op \in Catching THEN ZeroOf(threads[t].op)
                                     ELSE <<>>,
                          ![t].todo = <<>>]
        /\ UNCHANGED <<tbl, stamps, long_term, history, written>>
        /\ UNCHANGED notTableVars

\* =============================================== concurrent operations

\* a table left by earlier runs: three records of category coding, the third of
\* quality 1 and 91 days old, and two records of category general
ThreadSeeds ==
    Past(Past(Aged(Past(Past(<<>>, GitRebase, "success", 3, "coding"),
                        GitStash, "success", 3, "coding"),
                   MaxLowQualityDays + 1, GitPush, 1),
              DeployApp, "success", 3, "general"),
         StashChanges, "partial", 3, "general")

\* the merged record the summarization oracle gave for the coding records
MergedCoding == MergedContent(GitRebase, Word("coding"), 5, SomeLessons)

\* the store operations the turns and merge tasks of this run start in worker
\* threads: the group of replace_merged is the one get_merge_candidates gave
\* for the table as it was found
WorkerCalls ==
    { [op |-> "record_reuse", args |-> <<Word("push"), TRUE>>],
      [op |-> "deprecate_similar", args |-> <<Word("push")>>],
      [op |-> "cleanup_stale", args |-> <<>>],
      [op |-> "replace_merged",
       args |-> <<FirstN(GetMergeCandidates(ThreadSeeds, MergeMinCount)[1], MergeBatch),
                  MergedCoding>>] }

\* loop.py:943-981: asyncio.to_thread(memory.<operation>, ...)
CallWorker ==
    \E t \in DOMAIN threads \cap Workers, c \in WorkerCalls :
        /\ Free(t)
        /\ threads' = [threads EXCEPT ![t] = Started(t, c.op, c.args)]
        /\ UNCHANGED <<tbl, stamps, long_term, history, written>>
        /\ UNCHANGED notTableVars

\* memory.py:21-28: the table left by earlier runs; two worker threads
InitWorkers ==
    /\ NoTurn
    /\ InitProgress
    /\ InitSessions
    /\ InitRun
    /\ tbl = ThreadSeeds
    /\ today = 0
    /\ stamps = 0
    /\ reuses = 0
    /\ embedding = FALSE
    /\ task_descs = {}
    /\ selected = <<>>
    /\ vec_tbl = <<>>
    /\ call = NoCall
    /\ threads = [t \in Workers |-> Idle]
    /\ long_term = <<>>
    /\ history = <<>>
    /\ written = <<>>

NextWorkers ==
    \/ CallWorker
    \/ Search
    \/ Write

SpecWorkers == InitWorkers /\ [][NextWorkers]_vars

\* ----------------------------------------------------------- claim C21

\* a row without the clock reading a merged record was keyed with
Shape(r) ==
    [key |-> IF r.key[1] = "experience_merged" THEN <<"experience_merged">> ELSE r.key,
     content |-> r.content]

\* the two tables hold the same rows, each as often as the other
SameBag(a, b) ==
    /\ Len(a) = Len(b)
    /\ \A i \in 1..Len(a) :
        Cardinality({k \in 1..Len(a) : Shape(a[k]) = Shape(a[i])})
            = Cardinality({k \in 1..Len(b) : Shape(b[k]) = Shape(a[i])})

\* the table after the operation run alone, from its search to its return
RunAlone(rows, op, args, n) ==
    CASE op = "record_reuse" -> RecordReuseOn(rows, args[1], args[2])
      [] op = "deprecate_similar" -> DeprecateSimilarOn(rows, args[1])
      [] op = "cleanup_stale" -> CleanupStaleOn(rows, today)
      [] op = "replace_merged" -> ReplaceMergedOn(rows, args[1], args[2], Timestamp(today, n))

\* each worker has run one operation to its return
EachRanOne ==
    \A t \in Workers : threads[t].pc = "returned" /\ threads[t].calls = 1

\* C21: when two store operations (record_reuse, deprecate_similar,
\* cleanup_stale, replace_merged) have run concurrently in worker threads, the table
\* is the one some sequential order of the two leaves: no update is lost, no
\* deleted record is back and no record is there twice.
C21_AsSomeSequentialOrder ==
    EachRanOne =>
        \E first \in Workers :
            LET second == CHOOSE t \in Workers : t # first
                between == RunAlone(ThreadSeeds, threads[first].op, threads[first].args, 1)
            IN  SameBag(tbl, RunAlone(between, threads[second].op, threads[second].args, 2))


\* ================================================ abandoned operations

\* texts of long-term memory, as lines of words
OldFacts == << <<"prefer", "small", "steps">> >>
NewFacts == << <<"prefer", "git">>, <<"rebase">> >>

\* a history entry that ends with a newline
SomeEntry == << <<"deploy", "failed">>, <<>> >>

\* the store operations called on the thread of the event loop: by the
\* consolidation task (loop.py:736-741), by the experience summary (loop.py:930)
\* and for the system prompt (memory.py:492-494)
LoopCalls ==
    { [op |-> "write_long_term", args |-> <<NewFacts>>],
      [op |-> "append_history", args |-> <<SomeEntry>>],
      [op |-> "append_experience",
       args |-> <<[task |-> GitPush, outcome |-> Word("failed"), lessons |-> SomeLessons,
                   quality |-> 2, category |-> Word("coding"), keywords |-> <<>>,
                   reasoning_trace |-> <<>>]>>],
      [op |-> "read_long_term", args |-> <<>>] }

CallLoop ==
    \E c \in LoopCalls :
        /\ LoopThread \in DOMAIN threads
        /\ Free(LoopThread)
        /\ threads' = [threads EXCEPT
                          ![LoopThread] = IF c.op \in WritesFirst
                                          THEN StartedWriting(LoopThread, c.op, c.args)
                                          ELSE Started(LoopThread, c.op, c.args)]
        /\ UNCHANGED <<tbl, stamps, long_term, history, written>>
        /\ UNCHANGED notTableVars

\* memory.py:21-28: the table left by earlier runs, with a long-term record; one
\* worker thread beside the event loop
InitAbandon ==
    /\ NoTurn
    /\ InitProgress
    /\ InitSessions
    /\ InitRun
    /\ tbl = ThreadSeeds
    /\ today = 0
    /\ stamps = 0
    /\ reuses = 0
    /\ embedding = FALSE
    /\ task_descs = {}
    /\ selected = <<>>
    /\ vec_tbl = <<>>
    /\ call = NoCall
    /\ threads = [t \in {"worker-1", LoopThread} |-> Idle]
    /\ long_term = <<OldFacts>>
    /\ history = <<>>
    /\ written = <<>>

NextAbandon ==
    \/ CallWorker
    \/ CallLoop
    \/ Search
    \/ Write
    \/ Abandon

SpecAbandon == InitAbandon /\ [][NextAbandon]_vars

\* ----------------------------------------------------------- claim C22

\* the keys the abandoned operation had still to write under
KeysToWrite(t) == {threads[t].todo[k].key : k \in 1..Len(threads[t].todo)}

\* C22: when a store mutation (record_reuse, deprecate_similar,
\* write_long_term, replace_merged) is abandoned at any point, every record it was
\* updating is in the store in its old or its new version: an experience record
\* under its key, the long-term record, and of a merge either a replaced record
\* or the merged one.
C22_AbandonedLeavesOldOrNew ==
    \A t \in DOMAIN threads :
        threads[t].pc = "abandoned" =>
            /\ threads[t].op \in {"record_reuse", "deprecate_similar"} =>
                   KeysToWrite(t) \subseteq KeysOf(tbl)
            /\ threads[t].op = "write_long_term" => long_term # <<>>
            /\ threads[t].op = "replace_merged" =>
                   \E i \in 1..Len(tbl) :
                       \/ tbl[i].content = threads[t].args[2]
                       \/ \E k \in 1..Len(threads[t].args[1]) :
                              tbl[i].content = threads[t].args[1][k]


\* ==================================================== failing backend

\* the searches the turns and the merge task start in worker threads
\* (loop.py:458-459, 952)
WorkerReads ==
    { [op |-> "search_memory", args |-> <<Word("push"), 2>>],
      [op |-> "search_experience", args |-> <<Word("push"), 2>>],
      [op |-> "get_merge_candidates", args |-> <<>>] }

\* loop.py:458-459, 952: asyncio.to_thread(memory.<search>, ...)
CallRead ==
    \E t \in DOMAIN threads \cap Workers, c \in WorkerReads :
        /\ Free(t)
        /\ threads' = [threads EXCEPT ![t] = Started(t, c.op, c.args)]
        /\ UNCHANGED <<tbl, stamps, long_term, history, written>>
        /\ UNCHANGED notTableVars

\* memory.py:21-28: the table left by earlier runs, with a long-term record and
\* no history; one worker thread beside the event loop
InitFailure == InitAbandon

NextFailure ==
    \/ CallWorker
    \/ CallRead
    \/ CallLoop
    \/ Search
    \/ Write
    \/ Fail

SpecFailure == InitFailure /\ [][NextFailure]_vars

\* ----------------------------------------------------------- claim C23

\* C23: no operation of the store lets a failure of the storage backend
\* reach its caller: an operation whose backend call raises returns its empty/zero
\* result.
C23_NoFailurePropagates ==
    \A t \in DOMAIN threads : threads[t].pc # "raised"


\* ========================================================= AgentLoop.run

\* the inbound messages that are followed
MaxInbound == 3

\* the inbound messages of the run: channel, chat id and text
InboundMessages ==
    [channel : {"telegram", "cli"}, chat_id : {"42"}, content : {"hello", "/new"}]

\* what _process_message (loop.py:396-529) gives for a message: a response for
\* its channel and chat, None when the message tool has answered in the turn
\* (loop.py:523-524), or an exception with its text
Results ==
    { [kind |-> "response", content |-> "hi"],
      [kind |-> "none", content |-> ""],
      [kind |-> "error", content |-> "boom"],
      [kind |-> "error", content |-> ""] }

\* OutboundMessage(channel=msg.channel, chat_id=msg.chat_id, content=content)
OutboundMessage(channel, chat_id, content) ==
    [channel |-> channel, chat_id |-> chat_id, content |-> content]

\* loop.py:365-371: response or OutboundMessage(..., content="")
Answer(m, r) ==
    OutboundMessage(m.channel, m.chat_id, IF r.kind = "response" THEN r.content ELSE "")

Apology_ToCli(m, e) ==
    OutboundMessage("cli", "direct", "Sorry, I encountered an error: " \o e)
\* loop.py:374-380: the message published from the except branch
Apology(m, e) ==
    OutboundMessage(m.channel, m.chat_id, "Sorry, I encountered an error: " \o e)

\* the messages that have arrived so far
Arrived ==
    Len(inbound) + Len(outbound) + (IF run_pc \in {"process", "publish", "except"} THEN 1 ELSE 0)

\* a channel puts a message on the bus
Arrive ==
    /\ Arrived < MaxInbound
    /\ \E m \in InboundMessages : inbound' = Append(inbound, m)
    /\ UNCHANGED <<running, run_pc, msg, processed, outbound>>
    /\ UNCHANGED notRunVars

\* loop.py:354-357: run() is started
Run ==
    /\ run_pc = "exited"
    /\ ~running
    /\ outbound = <<>>
    /\ running' = TRUE
    /\ run_pc' = "consume"
    /\ UNCHANGED <<inbound, msg, processed, outbound>>
    /\ UNCHANGED notRunVars

\* loop.py:391-393: stop()
Stop ==
    /\ running
    /\ running' = FALSE
    /\ UNCHANGED <<inbound, run_pc, msg, processed, outbound>>
    /\ UNCHANGED notRunVars

\* loop.py:359: the loop head finds self._running false
Exit ==
    /\ run_pc = "consume"
    /\ ~running
    /\ run_pc' = "exited"
    /\ UNCHANGED <<inbound, running, msg, processed, outbound>>
    /\ UNCHANGED notRunVars

\* loop.py:361: consume_inbound gives the next message (a timeout leads back
\* to the loop head, loop.py:381-382)
Consume ==
    /\ run_pc = "consume"
    /\ running
    /\ inbound # <<>>
    /\ msg' = Head(inbound)
    /\ inbound' = Tail(inbound)
    /\ run_pc' = "process"
    /\ UNCHANGED <<running, processed, outbound>>
    /\ UNCHANGED notRunVars

\* loop.py:363: _process_message returns or raises
Processed ==
    /\ run_pc = "process"
    /\ \E r \in Results :
        /\ processed' = r
        /\ run_pc' = IF r.kind = "error" THEN "except" ELSE "publish"
    /\ UNCHANGED <<inbound, running, msg, outbound>>
    /\ UNCHANGED notRunVars

\* loop.py:364-371: the response, or an empty message in its place, is published
Publish ==
    /\ run_pc = "publish"
    /\ outbound' = Append(outbound, Answer(msg, processed))
    /\ run_pc' = "consume"
    /\ UNCHANGED <<inbound, running, msg, processed>>
    /\ UNCHANGED notRunVars

\* loop.py:372-380: except Exception: the apology is published
Apologize ==
    /\ run_pc = "except"
    /\ outbound' = Append(outbound, Apology(msg, processed.content))
    /\ run_pc' = "consume"
    /\ UNCHANGED <<inbound, running, msg, processed>>
    /\ UNCHANGED notRunVars

InitRunLoop ==
    /\ NoTurn
    /\ InitProgress
    /\ InitStore
    /\ InitSessions
    /\ InitThreads
    /\ InitRun

NextRun ==
    \/ Arrive
    \/ Run
    \/ Stop
    \/ Exit
    \/ Consume
    \/ Processed
    \/ Publish
    \/ Apologize

SpecRun == InitRunLoop /\ [][NextRun]_vars

\* ----------------------------------------------------------- claim C24

\* C24: an exception raised while the response to an inbound message is
\* produced leads to exactly one apology, published to the channel and chat of
\* that message: nothing else is published while the exception is handled, and
\* the handler ends with the apology appended and run() back at its loop head,
\* still running as before and with the waiting messages untouched.
C24_OneApologyThenOn ==
    [][run_pc = "except" =>
        IF run_pc' = "except"
        THEN outbound' = outbound
        ELSE /\ Len(outbound') = Len(outbound) + 1
             /\ outbound'[Len(outbound')].channel = msg.channel
             /\ outbound'[Len(outbound')].chat_id = msg.chat_id
             /\ outbound'[Len(outbound')].content
                    = "Sorry, I encountered an error: " \o processed.content
             /\ SubSeq(outbound', 1, Len(outbound)) = outbound
             /\ run_pc' = "consume"
             /\ inbound' = inbound
             /\ running' = running]_vars

\* a message whose processing raised has been apologized for, and the message
\* that came after it has been answered
C24_Witness ==
    /\ Len(outbound) >= 2
    /\ \E i \in 1..(Len(outbound) - 1) :
        /\ outbound[i].content = "Sorry, I encountered an error: boom"
        /\ outbound[i].channel = "telegram"
        /\ outbound[i + 1].content = "hi"
        /\ outbound[i + 1].channel = "cli"


\* ========================================== records without a timestamp

\* a row written by something else than this store: its updated_at is not a
\* timestamp
Undated(n, updated_at, task, quality) ==
    Row(<<"experience", <<>>, n>>,
        ExperienceContent(task, Word("success"), SomeLessons, quality, Word("coding"),
                          <<>>, <<>>),
        updated_at)

\* a table left by earlier runs: an active record of quality 3 with an empty
\* timestamp, a record of quality 1 with a timestamp that does not parse, and two
\* deprecated records, one with an empty timestamp and one of 29 days
LegacySeeds ==
    <<Undated(1, <<>>, GitRebase, 3), Undated(2, <<"yesterday">>, DeployApp, 1)>>
    \o DeprecateSimilarOn(
           Aged(<<Undated(3, <<>>, StashChanges, 3)>>, MaxDeprecatedDays - 1, StashChanges, 3),
           StashChanges)

\* memory.py:21-28: the table left by earlier runs
InitLegacy ==
    /\ NoTurn
    /\ InitProgress
    /\ InitSessions
    /\ InitRun
    /\ InitThreads
    /\ tbl = LegacySeeds
    /\ today = 0
    /\ stamps = 0
    /\ reuses = 0
    /\ embedding = FALSE
    /\ task_descs = Tasks
    /\ selected = <<>>
    /\ vec_tbl = <<>>
    /\ call = NoCall

NextLegacy ==
    \/ CleanupStale
    \/ AdvanceClock
    \/ DeprecateSimilar
    \/ RecordReuse

SpecLegacy == InitLegacy /\ [][NextLegacy]_vars

\* the cleanup is called again and again (loop.py:951, after every turn that
\* records an experience) and the clock moves on
SpecLegacyFair == SpecLegacy /\ WF_vars(CleanupStale) /\ WF_vars(AdvanceClock)

\* ----------------------------------------------------------- claim C25

\* the rows whose timestamp is missing or does not parse
NoTimestamp(r) == Len(r.updated_at) # 2

\* the row of key k is there, without a timestamp, and deprecated or of
\* quality <= 1
Condemned(k) ==
    \E i \in 1..Len(tbl) :
        /\ tbl[i].key = k
        /\ NoTimestamp(tbl[i])
        /\ IsDeprecated(tbl[i].content) \/ ParseQuality(tbl[i].content) <= 1

\* C25: a record whose timestamp is missing or unparseable counts as 30 days
\* old: a cleanup_stale does not remove it at once when it is deprecated or of
\* quality <= 1, and it does not stay for ever: some later cleanup_stale with the
\* default thresholds removes it.
C25_KeptAtFirstRemovedLater ==
    /\ [][call'.op = "cleanup_stale" /\ call.op # "cleanup_stale" =>
            \A i \in 1..Len(tbl) : NoTimestamp(tbl[i]) => tbl[i].key \in KeysOf(tbl')]_vars
    /\ \A k \in KeysOf(LegacySeeds) : [](Condemned(k) => <>(k \notin KeysOf(tbl)))


\* ================================================== search_memory

\* memory.py:159-160: the rows the vector table lists, nearest first, and their
\* contents
SemanticSearch(vrows, limit, order) ==
    SelectSeq(FirstN(IF order = "reversed" THEN Reverse(vrows) ELSE vrows, limit),
              LAMBDA c : c # <<>>)

\* memory.py:155-163: what search_memory returns; `fails` is the embedding or
\* the vector search raising
SearchMemoryOn(rows, lt, hist, vrows, enabled, fails, query, limit, order, scan) ==
    IF enabled /\ vrows # <<>> /\ ~fails THEN SemanticSearch(vrows, limit, order)
    ELSE FallbackTextSearch(Scanned(rows, lt, hist, scan), query, limit)

\* memory.py:156: the semantic search is configured and answers
Semantic(vrows, enabled, fails) ==
    IF enabled /\ vrows # <<>> /\ ~fails THEN "semantic" ELSE "fallback"

\* memory.py:155-163; the call is noted with the way it was answered
SearchMemory ==
    /\ \E query \in Queries, limit \in 0..MaxLimit, order \in Orders, scan \in Scans,
          fails \in BOOLEAN :
        call' = Called("search_memory",
                       <<query, limit, Semantic(vec_tbl, embedding, fails)>>,
                       SearchMemoryOn(tbl, long_term, history, vec_tbl, embedding, fails,
                                      query, limit, order, scan))
    /\ UNCHANGED <<tbl, today, stamps, reuses, embedding, task_descs, selected, vec_tbl>>
    /\ UNCHANGED notStoreVars

\* memory.py:21-47: the tables found at construction, with or without embedding:
\* experiences, the long-term facts and a history entry
InitMemory ==
    /\ NoTurn
    /\ InitProgress
    /\ InitSessions
    /\ InitRun
    /\ tbl = SearchSeeds
    /\ today = 0
    /\ stamps = 0
    /\ reuses = 0
    /\ embedding \in BOOLEAN
    /\ task_descs = Tasks
    /\ selected = <<>>
    /\ vec_tbl = IF embedding THEN Backfilled(tbl) ELSE <<>>
    /\ call = NoCall
    /\ threads = <<>>
    /\ long_term = <<NewFacts>>
    /\ history = <<SomeEntry>>
    /\ written = <<>>

NextMemory ==
    \/ SearchMemory
    \/ DeprecateSimilar

SpecMemory == InitMemory /\ [][NextMemory]_vars

\* ----------------------------------------------------------- claim C28

\* C28: when the semantic search is not configured or fails, search_memory
\* returns at most limit contents, none of them a deprecated record, ordered by
\* keyword hit count, the highest first.
C28_FallbackBoundedActiveOrdered ==
    (call.op = "search_memory" /\ call.args[3] = "fallback") =>
        /\ Len(call.ret) <= call.args[2]
        /\ \A i \in 1..Len(call.ret) : ~IsDeprecated(call.ret[i])
        /\ \A i, j \in 1..Len(call.ret) :
            i < j => Hits(Keywords(call.args[1]), call.ret[i])
                        >= Hits(Keywords(call.args[1]), call.ret[j])


\* ===================================================== long-term memory

\* the calls of the event loop's thread that are followed
MaxWrites == 3

\* loop.py:693, 744 and memory.py:493: the facts are read for the prompts and
\* rewritten by each consolidation, on the event loop's thread
LongTermCalls ==
    { [op |-> "write_long_term", args |-> <<NewFacts>>],
      [op |-> "write_long_term", args |-> <<OldFacts>>],
      [op |-> "read_long_term", args |-> <<>>] }

\* the event loop's thread calls the store: one call after the other
CallLongTerm ==
    \E c \in LongTermCalls :
        /\ LoopThread \in DOMAIN threads
        /\ threads[LoopThread].pc \in {"idle", "returned"}
        /\ threads[LoopThread].calls < MaxWrites
        /\ threads' = [threads EXCEPT
                          ![LoopThread] = IF c.op \in WritesFirst
                                          THEN StartedWriting(LoopThread, c.op, c.args)
                                          ELSE Started(LoopThread, c.op, c.args)]
        /\ UNCHANGED <<tbl, stamps, long_term, history, written>>
        /\ UNCHANGED notTableVars

\* memory.py:21-28: a table with or without long-term facts, and a worker thread
\* for the searches of the turns
InitLongTerm ==
    /\ NoTurn
    /\ InitProgress
    /\ InitSessions
    /\ InitRun
    /\ tbl = ThreadSeeds
    /\ today = 0
    /\ stamps = 0
    /\ reuses = 0
    /\ embedding = FALSE
    /\ task_descs = {}
    /\ selected = <<>>
    /\ vec_tbl = <<>>
    /\ call = NoCall
    /\ threads = [t \in {"worker-1", LoopThread} |-> Idle]
    /\ long_term \in {<<>>, <<OldFacts>>}
    /\ history = <<>>
    /\ written = <<>>

NextLongTerm ==
    \/ CallLongTerm
    \/ CallRead
    \/ Search
    \/ Write

SpecLongTerm == InitLongTerm /\ [][NextLongTerm]_vars

\* ----------------------------------------------------------- claim C29

\* C29: once write_long_term calls have returned, and none is under way, the
\* store holds exactly one long-term record, whose text is that of the most recent
\* write, and a read_long_term that has returned after them has returned that text.
C29_OneRecordLastWrite ==
    written # <<>> =>
        LET t == threads[LoopThread]
            last == written[Len(written)]
        IN  /\ ~(t.op = "write_long_term" /\ t.pc = "write") => long_term = <<last>>
            /\ (t.op = "read_long_term" /\ t.pc = "returned") => t.ret = last

\* two writes of different texts have returned and a read after them has
\* returned the text of the second
C29_Witness ==
    /\ written = <<NewFacts, OldFacts>>
    /\ threads[LoopThread].op = "read_long_term"
    /\ threads[LoopThread].pc = "returned"
    /\ threads[LoopThread].ret = OldFacts
    /\ long_term = <<OldFacts>>


\* ================================================ the mode "none"

\* the failed directions recorded within the first n steps of the turn
FailedWithin(n) ==
    LET errors == SelectSeq(SubSeq(tool_trace, 1, n), LAMBDA t : t.error)
    IN  [i \in 1..Len(errors) |-> errors[i].id]

\* ----------------------------------------------------------- claim C30

\* C30: in the experience mode "none" the control loop never asks the oracle:
\* every sufficiency check answers no and no directive to stop exploring is
\* injected; every checkpoint carries the summary computed from the trace and the
\* failed directions as they stood, and a checkpoint is injected at every provider
\* call before which 5 or more new trace entries have accumulated.
C30_NoneModeWithoutOracle ==
    experience_mode = "none" =>
        /\ \A i \in 1..Len(calls) :
            /\ calls[i].to # "oracle"
            /\ calls[i].to = "sufficiency" => calls[i].reply = "no"
            /\ calls[i].to = "compress" => calls[i].reply = "summary"
        /\ KindAt("sufficient") = {}
        /\ \A i \in KindAt("state") :
            LET n == messages[i].names[1]
            IN  messages[i].text
                    = Some(<<"progress", n, LastN(FailedWithin(n), 3),
                             LastN(SubSeq(tool_trace, 1, n), 5)>>)
        /\ \A p \in 1..Len(ProviderCalls) :
            LET n == ProviderCalls[p].at
            IN  n - CheckpointBefore(n) >= 5 =>
                    \E i \in KindAt("state") :
                        messages[i].names = <<n>> /\ i <= ProviderCalls[p].nmsgs

\* a turn in the mode "none" with a checkpoint that names a failed direction and
\* a sufficiency check at the same loop head, followed by the provider call
C30_Witness ==
    /\ experience_mode = "none"
    /\ \E i \in KindAt("state") : messages[i].text.v[3] # <<>>
    /\ \E i \in 1..Len(calls) :
        /\ calls[i].to = "sufficiency"
        /\ CallsTo("compress", calls[i].at) # {}
        /\ CallsTo("provider", calls[i].at) # {}


\* ============================================== the oracle's failures

\* loop.py:110-112 and 100-108: the mode "utility", the default, with a utility
\* model configured
InitOracle ==
    /\ pc = "iterate"
    /\ experience_mode = "utility"
    /\ InitLocals
    /\ InitProgress
    /\ InitStore
    /\ InitSessions
    /\ InitThreads
    /\ InitRun

SpecOracle == InitOracle /\ [][Next]_vars


\* ----------------------------------------------------------- claim C31

\* the replies that give no result: the oracle raises, or its content is empty,
\* no JSON, or no JSON object
NoResult == {"raises", "None", "blank", "text", "list"}

\* the requests to the oracle, by their place in the calls
OracleCalls == {i \in 1..Len(calls) : calls[i].to = "oracle"}

\* C31: when the oracle raises or replies with an empty, malformed or
\* non-object content, the step that asked it yields nothing: _compress_state
\* returns None and no checkpoint is injected for that loop head,
\* _check_sufficiency returns False and no directive is injected, and the provider
\* is called at that loop head all the same; a turn in which every request to the
\* oracle ended so holds no checkpoint and no directive and has kept its state
\* cursor and state text as they were at the start.
C31_NoResultSkipsTheStep ==
    /\ \A i \in OracleCalls :
        calls[i].reply \in NoResult =>
            /\ i < Len(calls)
            /\ calls[i + 1].to \in {"compress", "sufficiency"}
            /\ calls[i + 1].at = calls[i].at
            /\ calls[i + 1].reply \in {"none", "no"}
            /\ calls[i + 1].to = "compress" => calls[i].at \notin Checkpoints
            /\ \E p \in CallsTo("provider", calls[i].at) :
                /\ p > i
                /\ calls[i + 1].to = "sufficiency" => calls[p].nmsgs = calls[i + 1].nmsgs
                /\ \A k \in (calls[i].nmsgs + 1)..calls[p].nmsgs :
                    messages[k].kind = "state" => calls[i + 1].to = "sufficiency"
    /\ (\A i \in OracleCalls : calls[i].reply \in NoResult) =>
            /\ KindAt("state") = {}
            /\ KindAt("sufficient") = {}
            /\ last_state_at = 0
            /\ last_state_text = None

\* a turn has ended on a final answer after tool calls, with a compression
\* whose oracle raised, one whose reply was a list, and a sufficiency check whose
\* reply was no JSON
C31_Witness ==
    /\ pc = "done"
    /\ final_content.some
    /\ \E i, j, k \in OracleCalls :
        /\ calls[i].reply = "raises" /\ calls[i + 1].to = "compress"
        /\ calls[j].reply = "list" /\ calls[j + 1].to = "compress"
        /\ calls[k].reply = "text" /\ calls[k + 1].to = "sufficiency"
    /\ \A i \in OracleCalls : calls[i].reply \in NoResult


\* ======================================= the order of the message list

\* the assistant messages that carry tool calls, by position
Requests == KindAt("tool_calls")

\* the calls of the request at position i that have been executed: all of them,
\* but for the round under way
Executed(i) ==
    IF pc = "tools" /\ \A j \in Requests : j <= i
    THEN Len(messages[i].names) - Len(pending)
    ELSE Len(messages[i].names)

\* ----------------------------------------------------------- claim C32

\* C32: every assistant message that carries tool calls is followed at once by
\* the tool messages of its calls, one per call, in the order of the request and
\* each with the id of its call; no other message stands between the request and
\* its results, no tool message stands elsewhere, and while a round is under way
\* the list ends with the results obtained so far.
C32_ResultsFollowTheirRequest ==
    /\ \A i \in Requests :
        /\ i + Executed(i) <= Len(messages)
        /\ \A k \in 1..Executed(i) :
            /\ messages[i + k].role = "tool"
            /\ messages[i + k].names = <<messages[i].names[k]>>
        /\ i + Executed(i) < Len(messages) => messages[i + Executed(i) + 1].role # "tool"
        /\ Executed(i) < Len(messages[i].names) => Len(messages) = i + Executed(i)
    /\ \A m \in 1..Len(messages) :
        messages[m].role = "tool" =>
            \E i \in Requests : i < m /\ m <= i + Executed(i)

\* two rounds of two calls or more have been executed; a corrective instruction
\* follows the results of the first and a checkpoint stands before the second
\* request
C32_Witness ==
    \E i, j \in Requests :
        /\ i < j
        /\ Len(messages[i].names) >= 2
        /\ Len(messages[j].names) >= 2
        /\ Executed(j) = Len(messages[j].names)
        /\ messages[i + Executed(i) + 1].kind \in {"mild", "strong"}
        /\ messages[j - 1].kind \in {"state", "sufficient"}

\* ============================================= the experience of a turn

\* loop.py:921-945: the table once _summarize_experience has stored what the
\* oracle extracted at timestamp ts: the record is appended, then a failure
\* deprecates the records similar to its task and a success of a turn without
\* errors (total_errors == 0) is reported as a reuse
SummarizedOn(rows, e, ts, errors) ==
    LET stored == AppendedTo(rows, [e EXCEPT !.quality = ClampQuality(@)], ts)
    IN  IF e.outcome = Word("failed") THEN DeprecateSimilarOn(stored, e.task)
        ELSE IF errors = 0 THEN RecordReuseOn(stored, e.task, TRUE)
        ELSE stored

\* loop.py:917-945, _summarize_experience from the oracle's answer on
SummarizeExperience ==
    /\ stamps < MaxStamps
    /\ \E e \in Experiences, errors \in 0..1 :
        /\ tbl' = SummarizedOn(tbl, e, Timestamp(today, stamps + 1), errors)
        /\ vec_tbl' = EmbedAndStore(vec_tbl, embedding,
                          ExperienceContent(e.task, e.outcome, e.lessons,
                                            ClampQuality(e.quality), e.category,
                                            e.keywords, e.reasoning_trace))
        /\ call' = Called("summarize_experience", <<e, errors>>, <<>>)
    /\ stamps' = stamps + 1
    /\ UNCHANGED <<today, reuses, embedding, task_descs, selected>>
    /\ UNCHANGED notStoreVars

\* memory.py:21-47: the tables found at construction, with or without embedding
InitSummarize == InitSearch

NextSummarize ==
    \/ SummarizeExperience
    \/ SearchExperience
    \/ AdvanceClock

SpecSummarize == InitSummarize /\ [][NextSummarize]_vars

\* ----------------------------------------------------------- claim C37

\* the entries search_experience can return for a query on the tables given
Returnable(rows, vrows, query, day) ==
    UNION {{SearchExperienceOn(rows, vrows, embedding, query, limit, day, order)[i] :
               i \in 1..Len(SearchExperienceOn(rows, vrows, embedding, query, limit, day,
                                               order))} :
              limit \in 1..MaxLimit, order \in Orders}

\* C37: when experience extraction stores a failed record and then applies
\* deprecate_similar to its task, only records that were stored before are
\* deprecated, and only similar ones: the record just appended is in the table,
\* active, and a search_experience for its task can return it as the warning.
C37_OnlyEarlierOnesDeprecated ==
    [][(/\ stamps' = stamps + 1
        /\ call'.op = "summarize_experience"
        /\ call'.args[1].outcome = Word("failed"))
       => LET key == <<"experience", Timestamp(today, stamps + 1)>>
              task == call'.args[1].task
              similar == KeysOf(MatchExperienceRows(tbl, task, DeprecateTenths))
          IN  /\ key \in KeysOf(tbl')
              /\ ~IsDeprecated(RowOf(tbl', key).content)
              /\ \A k \in KeysOf(tbl) :
                    /\ k \in KeysOf(tbl')
                    /\ RowOf(tbl', k).content # RowOf(tbl, k).content => k \in similar
              /\ Warning(RowOf(tbl', key).content) \in Returnable(tbl', vec_tbl', task, today)]_vars

\* ============================================= deleted records and search

\* a table left by earlier runs on day 0: three records of one category and two
\* of another, a deprecated record and a record of quality 1
ForgetSeeds == Past(SixSeeds, GitPush, "success", 1, "general")

\* memory.py:21-47: the table left by earlier runs, with or without embedding;
\* with it the vector table holds the content of every record
InitForget ==
    /\ NoTurn
    /\ InitProgress
    /\ InitSessions
    /\ InitRun
    /\ InitThreads
    /\ tbl = ForgetSeeds
    /\ today = 0
    /\ stamps = 0
    /\ reuses = 0
    /\ embedding \in BOOLEAN
    /\ task_descs = Tasks
    /\ selected = <<>>
    /\ vec_tbl = IF embedding THEN Backfilled(tbl) ELSE <<>>
    /\ call = NoCall

NextForget ==
    \/ CleanupStale
    \/ ReplaceMerged
    \/ AdvanceClock
    \/ SearchExperience
    \/ SearchMemory

SpecForget == InitForget /\ [][NextForget]_vars

\* ----------------------------------------------------------- claim C38

\* the contents of the records a table holds
ContentsOf(rows) == {rows[i].content : i \in 1..Len(rows)}

\* the contents of the records cleanup_stale and replace_merged have deleted
DeletedContents == ContentsOf(ForgetSeeds) \ ContentsOf(tbl)

\* an entry of a search result gives the content: as it is, or under the line of
\* a warning or of a conflict
Gives(entry, content) ==
    \/ entry = content
    \/ entry # <<>> /\ Tail(entry) = content

\* C38: once cleanup_stale or replace_merged has deleted an experience record,
\* no search_experience and no search_memory returns its content, neither from
\* the vector table nor by keywords.
C38_DeletedNeverReturned ==
    call.op \in {"search_experience", "search_memory"}
    => \A i \in 1..Len(call.ret) : \A c \in DeletedContents : ~Gives(call.ret[i], c)

\* ================================== what the updates of records leave alone

\* ----------------------------------------------------------- claim C39

\* memory.py:344, 374: the records a call of record_reuse or deprecate_similar
\* matches in the table it finds
MatchedBy(c, rows) ==
    KeysOf(MatchExperienceRows(rows, c.args[1],
                               IF c.op = "record_reuse" THEN ReuseTenths
                               ELSE DeprecateTenths))

\* C39: record_reuse and deprecate_similar change nothing but the content of
\* the records they match: the table holds the same keys after the call, every
\* record keeps its updated_at, and every record that was not matched is as it
\* was.
C39_OnlyMatchedContentsChange ==
    [][call'.op \in {"record_reuse", "deprecate_similar"}
       => /\ Len(tbl') = Len(tbl)
          /\ KeysOf(tbl') = KeysOf(tbl)
          /\ \A k \in KeysOf(tbl) :
                /\ RowOf(tbl', k).updated_at = RowOf(tbl, k).updated_at
                /\ k \notin MatchedBy(call', tbl) => RowOf(tbl', k) = RowOf(tbl, k)]_vars

\* a reuse has just been recorded on two records or more beside others it did
\* not match, one of them deprecated
C39_Witness ==
    /\ call.op = "record_reuse"
    /\ call.ret >= 2
    /\ call.ret < Len(tbl)
    /\ \E i \in 1..Len(tbl) : IsDeprecated(tbl[i].content)

\* ----------------------------------------------------------- claim C40

\* the deprecation markers a content carries
Markers(content) ==
    Cardinality(UNION {{<<i, j>> : j \in {x \in 1..Len(content[i]) :
                                             content[i][x] = "[Deprecated]"}} :
                          i \in 1..Len(content)})

Similar(task_desc) ==
    {i \in 1..Len(tbl) :
        10 * Hits(Keywords(task_desc), tbl[i].content)
            >= Cardinality(Keywords(task_desc)) * DeprecateTenths}

====
